---------------------------- MODULE Spec2Model ----------------------------
(***************************************************************************)
(* Verification model of the transaction interpretation pipeline of the    *)
(* Solana analytics dashboard: max drawdown, order classification, swap     *)
(* interpretation, symbol resolution, price cache, provider retries and     *)
(* the time-analysis aggregation.                                           *)
(*                                                                         *)
(* Each part of the pipeline has its own variables and its own              *)
(* specification; a specification holds the variables of the other parts    *)
(* at their idle values.                                                    *)
(*                                                                         *)
(* Numbers: JavaScript doubles are modelled as exact integers (lamports)    *)
(* and exact rationals <<num, den>>; binary rounding error is not modelled. *)
(* Strings are sequences of one-character strings, so that case folding     *)
(* and substring search are computed, not assumed.                          *)
(***************************************************************************)
EXTENDS Integers, Sequences, FiniteSets, TLC

VARIABLES
    \* calculateMaxDrawdown (src/lib/utils.ts)
    ddData, ddResult, ddPc,
    \* classifyOrderType (src/app/api/order-analysis/route.ts)
    ocTx, ocTags,
    \* fetchWithRetry, getRecentTransactions, getAssetsByOwner (src/lib/api/helius.ts)
    hxOp, hxApiKey, hxAddressValid, hxPc, hxAttempt, hxRequests, hxStatuses,
    hxDelays, hxLastResponse, hxResult,
    \* getSolPriceUsd and its module-level cache (transactions route)
    cachedSolPrice, solPriceFetchedAt, spClock, spPc, spNow, spAnswer, spReturn,
    spHow, spLastGood,
    \* resolveSymbols, loadJupiterList, resolveViaHeliusDas (src/lib/api/valuation.ts)
    jupiterCache, jupiterCacheTs, dasCache, rsClock, rsApiKey, rsMints, rsPc, rsNow,
    rsJup, rsJupList, rsResult, rsUnknowns, rsDas, rsRaised, rsAfter,
    jupRequests, dasRequests,
    \* GET of the time-analysis route (src/app/api/time-analysis/route.ts)
    taFetchOk, taTransactions, taPc, taResponse,
    \* classifySwap (src/unnamed/part_013) and parseSwap
    \* (src/app/api/trading-metrics/route.ts) applied to one transaction
    csTx, csClassified, csParsed,
    \* buildAction of the transactions route (src/unnamed/part_012)
    baTx, baSymbolMap, baResult,
    \* wallet selection of the API routes (src/app/api/*/route.ts, getWalletParam)
    wqServed,
    \* getPortfolioHistory (src/lib/api/valuation.ts) and the clock it reads
    phClock, phCalls,
    \* the three fetches of the pipeline and the HTTP statuses they receive
    xcOp, xcPc, xcStatuses, xcOutcome, xcDone,
    \* GET of the volume-fees route (src/unnamed/part_014): the fee composition
    vfTransactions, vfPc, vfResponse,
    \* estimateValueSol of the transactions route (src/unnamed/part_012)
    evTx, evPc, evResult,
    \* the dashboard page and its widgets (src/app/page.tsx, src/components/dashboard/time-analysis.tsx)
    hpWallet, hpChanges, hpInFlight, hpShown

ddVars == <<ddData, ddResult, ddPc>>
ocVars == <<ocTx, ocTags>>
hxVars == <<hxOp, hxApiKey, hxAddressValid, hxPc, hxAttempt, hxRequests, hxStatuses,
           hxDelays, hxLastResponse, hxResult>>
spVars == <<cachedSolPrice, solPriceFetchedAt, spClock, spPc, spNow, spAnswer, spReturn,
           spHow, spLastGood>>
rsVars == <<jupiterCache, jupiterCacheTs, dasCache, rsClock, rsApiKey, rsMints, rsPc, rsNow,
           rsJup, rsJupList, rsResult, rsUnknowns, rsDas, rsRaised, rsAfter,
           jupRequests, dasRequests>>
taVars == <<taFetchOk, taTransactions, taPc, taResponse>>
csVars == <<csTx, csClassified, csParsed>>
baVars == <<baTx, baSymbolMap, baResult>>
wqVars == <<wqServed>>
phVars == <<phClock, phCalls>>
xcVars == <<xcOp, xcPc, xcStatuses, xcOutcome, xcDone>>
vfVars == <<vfTransactions, vfPc, vfResponse>>
evVars == <<evTx, evPc, evResult>>
hpVars == <<hpWallet, hpChanges, hpInFlight, hpShown>>
vars == <<ddVars, ocVars, hxVars, spVars, rsVars, taVars, csVars, baVars, wqVars, phVars, xcVars, vfVars, evVars, hpVars>>

(***************************************************************************)
(* Strings                                                                 *)
(***************************************************************************)
UpperChars ==
    <<"A","B","C","D","E","F","G","H","I","J","K","L","M",
      "N","O","P","Q","R","S","T","U","V","W","X","Y","Z">>

LowerChars ==
    <<"a","b","c","d","e","f","g","h","i","j","k","l","m",
      "n","o","p","q","r","s","t","u","v","w","x","y","z">>

CharIndex(seq, c) ==
    IF \E i \in 1..Len(seq) : seq[i] = c
    THEN CHOOSE i \in 1..Len(seq) : seq[i] = c
    ELSE 0

LowerChar(c) ==
    IF CharIndex(UpperChars, c) # 0 THEN LowerChars[CharIndex(UpperChars, c)] ELSE c

UpperChar(c) ==
    IF CharIndex(LowerChars, c) # 0 THEN UpperChars[CharIndex(LowerChars, c)] ELSE c

\* String.prototype.toLowerCase
toLowerCase(s) == [i \in 1..Len(s) |-> LowerChar(s[i])]

\* String.prototype.toUpperCase
toUpperCase(s) == [i \in 1..Len(s) |-> UpperChar(s[i])]

\* String.prototype.includes
includes(s, sub) ==
    \E i \in 0..(Len(s) - Len(sub)) :
        \A j \in 1..Len(sub) : s[i + j] = sub[j]

(***************************************************************************)
(* Exact rationals <<num, den>> with den >= 0.  den = 0 stands for the     *)
(* IEEE results of a division by zero: num < 0 is -Infinity, num > 0 is    *)
(* +Infinity and num = 0 is NaN.                                           *)
(***************************************************************************)
Rat(n, d) == IF d < 0 THEN <<-n, -d>> ELSE <<n, d>>

RatZero == <<0, 1>>

RatIsNaN(a) == a[1] = 0 /\ a[2] = 0

RatIsFinite(a) == a[2] # 0

\* a < b as JavaScript compares doubles (false when either side is NaN)
RatLess(a, b) ==
    /\ ~RatIsNaN(a)
    /\ ~RatIsNaN(b)
    /\ a[1] * b[2] < b[1] * a[2]

RatEq(a, b) ==
    /\ RatIsFinite(a)
    /\ RatIsFinite(b)
    /\ a[1] * b[2] = b[1] * a[2]

(***************************************************************************)
(* calculateMaxDrawdown                                                    *)
(***************************************************************************)
\* bound: longest value series
MaxSeriesLen == 3

\* values of the series: a negative value, zero, and the values 100, 150, 90
DdValues == {-10, 0, 90, 100, 150}

\* a point's date is its position in the series
DdSeries ==
    UNION { [1..n -> DdValues] : n \in 0..MaxSeriesLen }

Point(series, i) == [value |-> series[i], date |-> i]

DdInput(series) == [i \in 1..Len(series) |-> Point(series, i)]

\* the loop body with the guard on a zero peak removed
DrawdownStepNoZeroGuard(st, point) ==
    IF point.value > st.currentPeak
    THEN [st EXCEPT !.currentPeak = point.value, !.currentPeakDate = point.date]
    ELSE LET drawdown == Rat((point.value - st.currentPeak) * 100, st.currentPeak)
         IN  IF RatLess(drawdown, st.maxDrawdown)
             THEN [st EXCEPT !.maxDrawdown = drawdown,
                             !.maxDrawdownPeak = st.currentPeak,
                             !.maxDrawdownTrough = point.value,
                             !.maxDrawdownPeakDate = st.currentPeakDate,
                             !.maxDrawdownTroughDate = point.date]
             ELSE st

\* one iteration of the for loop (utils.ts 68-91)
DrawdownStep(st, point) ==
    IF point.value > st.currentPeak
    THEN [st EXCEPT !.currentPeak = point.value, !.currentPeakDate = point.date]
    ELSE IF st.currentPeak = 0
    THEN st
    ELSE LET drawdown == Rat((point.value - st.currentPeak) * 100, st.currentPeak)
         IN  IF RatLess(drawdown, st.maxDrawdown)
             THEN [st EXCEPT !.maxDrawdown = drawdown,
                             !.maxDrawdownPeak = st.currentPeak,
                             !.maxDrawdownTrough = point.value,
                             !.maxDrawdownPeakDate = st.currentPeakDate,
                             !.maxDrawdownTroughDate = point.date]
             ELSE st

RECURSIVE DrawdownLoop(_, _, _)
DrawdownLoop(data, index, st) ==
    IF index > Len(data)
    THEN st
    ELSE DrawdownLoop(data, index + 1, DrawdownStep(st, data[index]))

NoDate == 0

calculateMaxDrawdown(data) ==
    IF Len(data) = 0
    THEN [percentage |-> RatZero, peak |-> 0, trough |-> 0,
          peakDate |-> NoDate, troughDate |-> NoDate]
    ELSE IF Len(data) = 1
    THEN [percentage |-> RatZero, peak |-> data[1].value, trough |-> data[1].value,
          peakDate |-> data[1].date, troughDate |-> data[1].date]
    ELSE LET first == data[1]
             st0 == [currentPeak |-> first.value,
                     currentPeakDate |-> first.date,
                     maxDrawdown |-> RatZero,
                     maxDrawdownPeak |-> first.value,
                     maxDrawdownTrough |-> first.value,
                     maxDrawdownPeakDate |-> first.date,
                     maxDrawdownTroughDate |-> first.date]
             st == DrawdownLoop(data, 2, st0)
         IN  [percentage |-> st.maxDrawdown,
              peak |-> st.maxDrawdownPeak,
              trough |-> st.maxDrawdownTrough,
              peakDate |-> st.maxDrawdownPeakDate,
              troughDate |-> st.maxDrawdownTroughDate]

NoResult == [percentage |-> RatZero, peak |-> 0, trough |-> 0,
             peakDate |-> NoDate, troughDate |-> NoDate]

DdIdle ==
    /\ ddData = <<>>
    /\ ddResult = NoResult
    /\ ddPc = "idle"

DdInit ==
    /\ ddData \in { DdInput(s) : s \in DdSeries }
    /\ ddResult = NoResult
    /\ ddPc = "call"

CalcMaxDrawdown ==
    /\ ddPc = "call"
    /\ ddResult' = calculateMaxDrawdown(ddData)
    /\ ddPc' = "done"
    /\ UNCHANGED ddData

\* max of the values of data[1..i]: the rolling peak once point i is read
RollingPeak(data, i) ==
    CHOOSE m \in { data[j].value : j \in 1..i } :
        \A j \in 1..i : data[j].value <= m

\* (value - rolling peak) / rolling peak * 100 at point i
DrawdownAt(data, i) ==
    Rat((data[i].value - RollingPeak(data, i)) * 100, RollingPeak(data, i))

\* the points whose drawdown is computed: all but the first, rolling peak not 0
DrawdownPoints(data) ==
    { i \in 2..Len(data) : RollingPeak(data, i) # 0 }

DdValuesOf(data) == [i \in 1..Len(data) |-> data[i].value]

\* C7: calculateMaxDrawdown returns a finite percentage that is at most 0 and
\* is the most negative (value - rolling peak) / rolling peak * 100 of the
\* series, with the peak and trough that produced it; the empty series gives
\* 0, 0, 0; one point gives 0 with peak = trough = the point; 100, 150, 90
\* gives -40 with peak 150 and trough 90; a rolling peak of 0 is skipped, so
\* the percentage is never the result of a division by zero.
C7_MaxDrawdown ==
    ddPc = "done" =>
        LET r == ddResult
            n == Len(ddData)
        IN  /\ RatIsFinite(r.percentage)
            /\ ~RatLess(RatZero, r.percentage)
            /\ \A i \in DrawdownPoints(ddData) :
                   ~RatLess(DrawdownAt(ddData, i), r.percentage)
            /\ \/ /\ RatEq(r.percentage, RatZero)
                  /\ n = 0 => r.peak = 0 /\ r.trough = 0
                  /\ n > 0 => r.peak = ddData[1].value /\ r.trough = ddData[1].value
               \/ \E i \in DrawdownPoints(ddData) :
                      /\ RatEq(r.percentage, DrawdownAt(ddData, i))
                      /\ r.peak = RollingPeak(ddData, i)
                      /\ r.trough = ddData[i].value
            /\ n = 1 => /\ r.percentage = RatZero
                        /\ r.peak = ddData[1].value
                        /\ r.trough = ddData[1].value
            /\ DdValuesOf(ddData) = <<100, 150, 90>> =>
                   /\ RatEq(r.percentage, <<-40, 1>>)
                   /\ r.peak = 150
                   /\ r.trough = 90

\* the series 100, 150, 90 has been evaluated to -40 with peak 150, trough 90
C7_Witness ==
    /\ ddPc = "done"
    /\ DdValuesOf(ddData) = <<100, 150, 90>>
    /\ RatEq(ddResult.percentage, <<-40, 1>>)
    /\ ddResult.peak = 150
    /\ ddResult.trough = 90

(***************************************************************************)
(* classifyOrderType                                                       *)
(***************************************************************************)
LIMIT_SOURCES ==
    { <<"O","P","E","N","B","O","O","K">>,
      <<"O","P","E","N","B","O","O","K","_","V","2">>,
      <<"S","E","R","U","M">>,
      <<"S","E","R","U","M","_","V","3">>,
      <<"P","H","O","E","N","I","X">> }

DCA_KEYWORDS ==
    { <<"d","c","a">>,
      <<"d","o","l","l","a","r"," ","c","o","s","t">>,
      <<"d","o","l","l","a","r","-","c","o","s","t">> }

MARKET_SOURCES ==
    { <<"J","U","P","I","T","E","R">>,
      <<"R","A","Y","D","I","U","M">>,
      <<"O","R","C","A">>,
      <<"M","E","T","E","O","R","A">>,
      <<"L","I","F","I","N","I","T","Y">>,
      <<"A","L","D","R","I","N">>,
      <<"S","A","B","E","R">>,
      <<"M","A","R","I","N","A","D","E">>,
      <<"W","H","I","R","L","P","O","O","L">>,
      <<"F","L","U","X","B","E","A","M">>,
      <<"P","U","M","P","_","F","U","N">>,
      <<"P","U","M","P">> }

StrDCA == <<"D","C","A">>

StrLimit == <<"l","i","m","i","t">>

EmptyStr == <<>>

NoProgramInfo == [name |-> EmptyStr, source |-> EmptyStr, present |-> FALSE]

\* tx.events?.swap?.programInfo?.name || ''
ProgramNameOf(tx) == IF tx.programInfo.present THEN tx.programInfo.name ELSE EmptyStr

\* tx.events?.swap?.programInfo?.source || ''
ProgramSourceOf(tx) == IF tx.programInfo.present THEN tx.programInfo.source ELSE EmptyStr

\* the DCA rule (route.ts 38-42)
IsDcaOrder(tx) ==
    LET source == toUpperCase(tx.source)
        desc == toLowerCase(tx.description)
        programName == toLowerCase(ProgramNameOf(tx))
    IN  \/ \E k \in DCA_KEYWORDS : includes(desc, k)
        \/ \E k \in DCA_KEYWORDS : includes(programName, k)
        \/ includes(source, StrDCA)

\* the limit rule (route.ts 47-52)
IsLimitOrder(tx) ==
    LET source == toUpperCase(tx.source)
        desc == toLowerCase(tx.description)
        programName == toLowerCase(ProgramNameOf(tx))
        programSource == toUpperCase(ProgramSourceOf(tx))
    IN  \/ source \in LIMIT_SOURCES
        \/ programSource \in LIMIT_SOURCES
        \/ includes(desc, StrLimit)
        \/ includes(programName, StrLimit)

\* the market rule (route.ts 72-79)
IsMarketOrder(tx) ==
    LET source == toUpperCase(tx.source)
        programSource == toUpperCase(ProgramSourceOf(tx))
    IN  \/ source \in MARKET_SOURCES
        \/ programSource \in MARKET_SOURCES
        \/ tx.type = "SWAP"
        \/ tx.type = "swap"

\* the cascade with the limit rule tried before the DCA rule
classifyOrderTypeLimitFirst(tx) ==
    IF IsLimitOrder(tx) THEN "Limit"
    ELSE IF IsDcaOrder(tx) THEN "DCA"
    ELSE IF IsMarketOrder(tx) THEN "Market"
    ELSE "Unknown"

classifyOrderType(tx) ==
    IF IsDcaOrder(tx) THEN "DCA"
    ELSE IF IsLimitOrder(tx) THEN "Limit"
    ELSE IF IsMarketOrder(tx) THEN "Market"
    ELSE "Unknown"

OcSources ==
    { EmptyStr,
      <<"J","U","P","I","T","E","R">>,
      <<"O","P","E","N","B","O","O","K">>,
      <<"P","h","o","e","n","i","x">>,
      <<"J","U","P","I","T","E","R","_","D","C","A">>,
      <<"S","Y","S","T","E","M","_","P","R","O","G","R","A","M">> }

OcDescriptions ==
    { EmptyStr,
      <<"S","w","a","p","p","e","d"," ","v","i","a"," ","D","C","A">>,
      <<"L","i","m","i","t"," ","o","r","d","e","r"," ","f","i","l","l","e","d">>,
      <<"s","w","a","p","p","e","d"," ","1"," ","S","O","L"," ","f","o","r"," ","2"," ","U","S","D","C">> }

OcProgramInfos ==
    { NoProgramInfo,
      [name |-> <<"J","u","p","i","t","e","r"," ","D","C","A">>,
       source |-> <<"J","U","P","I","T","E","R">>, present |-> TRUE],
      [name |-> <<"J","u","p","i","t","e","r"," ","L","i","m","i","t"," ","O","r","d","e","r">>,
       source |-> <<"J","U","P","I","T","E","R">>, present |-> TRUE],
      [name |-> EmptyStr, source |-> <<"S","E","R","U","M">>, present |-> TRUE],
      [name |-> <<"r","a","y","d","i","u","m">>,
       source |-> <<"R","A","Y","D","I","U","M">>, present |-> TRUE] }

OcTypes == {"SWAP", "swap", "TRANSFER"}

OcTxs ==
    [source : OcSources, description : OcDescriptions,
     programInfo : OcProgramInfos, type : OcTypes]

NoOcTx ==
    [source |-> EmptyStr, description |-> EmptyStr,
     programInfo |-> NoProgramInfo, type |-> "TRANSFER"]

\* bound: how many times the same transaction is classified
MaxClassifyCalls == 2

OcIdle ==
    /\ ocTx = NoOcTx
    /\ ocTags = <<>>

OcInit ==
    /\ ocTx \in OcTxs
    /\ ocTags = <<>>

ClassifyOrder ==
    /\ Len(ocTags) < MaxClassifyCalls
    /\ ocTags' = Append(ocTags, classifyOrderType(ocTx))
    /\ UNCHANGED ocTx

OrderTypes == {"Market", "Limit", "DCA", "Unknown"}

\* C6: classifyOrderType returns exactly one of Market, Limit, DCA, Unknown,
\* the same tag on every call for the same transaction, and the tag of the
\* first matching rule in the order DCA, Limit, Market, else Unknown; a
\* transaction with a DCA keyword and a limit source is DCA, one with a limit
\* rule and a market source is Limit.
C6_OrderCascade ==
    \A i \in 1..Len(ocTags) :
        LET tag == ocTags[i]
        IN  /\ tag \in OrderTypes
            /\ tag = ocTags[1]
            /\ (tag = "DCA") = IsDcaOrder(ocTx)
            /\ (tag = "Limit") = (~IsDcaOrder(ocTx) /\ IsLimitOrder(ocTx))
            /\ (tag = "Market") =
                   (~IsDcaOrder(ocTx) /\ ~IsLimitOrder(ocTx) /\ IsMarketOrder(ocTx))
            /\ ( /\ ocTx.source = <<"O","P","E","N","B","O","O","K">>
                 /\ ocTx.description = <<"S","w","a","p","p","e","d"," ","v","i","a"," ","D","C","A">> ) => tag = "DCA"
            /\ ( /\ ocTx.source = <<"P","h","o","e","n","i","x">>
                 /\ ocTx.description = EmptyStr
                 /\ ~ocTx.programInfo.present
                 /\ ocTx.type = "SWAP" ) => tag = "Limit"
            /\ ( /\ ocTx.source = <<"J","U","P","I","T","E","R">>
                 /\ ocTx.description = EmptyStr
                 /\ ocTx.programInfo.present
                 /\ ocTx.programInfo.source = <<"S","E","R","U","M">> ) => tag = "Limit"
            /\ ( /\ ocTx.source = <<"S","Y","S","T","E","M","_","P","R","O","G","R","A","M">>
                 /\ ocTx.description = EmptyStr
                 /\ ~ocTx.programInfo.present
                 /\ ocTx.type = "TRANSFER" ) => tag = "Unknown"

\* a transaction with a limit source and a DCA keyword was classified twice, as DCA
C6_Witness ==
    /\ Len(ocTags) = 2
    /\ ocTx.source = <<"O","P","E","N","B","O","O","K">>
    /\ ocTx.description = <<"S","w","a","p","p","e","d"," ","v","i","a"," ","D","C","A">>
    /\ ocTags[1] = "DCA"
    /\ ocTags[2] = "DCA"

(***************************************************************************)
(* fetchWithRetry and its two callers, getRecentTransactions and           *)
(* getAssetsByOwner.  One call is modelled: the functions share no state.  *)
(* A step is the code between two awaits.                                  *)
(***************************************************************************)
MAX_RETRIES == 3

BASE_DELAY_MS == 500

RECURSIVE Pow2(_)
Pow2(n) == IF n = 0 THEN 1 ELSE 2 * Pow2(n - 1)

\* a back-off that grows linearly instead of doubling
BackoffDelayLinear(attempt) == BASE_DELAY_MS * (attempt + 1)

\* const delay = BASE_DELAY_MS * 2 ** attempt
BackoffDelay(attempt) == BASE_DELAY_MS * Pow2(attempt)

\* response.status !== 429 || attempt === MAX_RETRIES
ReturnsResponse(status, attempt) == status # 429 \/ attempt = MAX_RETRIES

\* HTTP statuses the provider answers with
HxStatuses == {200, 404, 429, 500}

\* what response.json() gives: an array of transactions, an RPC payload with a
\* result, an RPC payload with an error, another object, or a parse failure
HxBodies == {"array", "result", "rpcerror", "object", "invalid"}

HxResponses == [status : HxStatuses, body : HxBodies]

NoResponse == [status |-> 0, body |-> "none"]

\* Response.ok
ResponseOk(response) == response.status >= 200 /\ response.status <= 299

HxOps == {"getRecentTransactions", "getAssetsByOwner"}

HxContext(op) ==
    IF op = "getRecentTransactions"
    THEN "Failed to fetch transactions from Helius"
    ELSE "Failed to fetch assets from Helius"

NoHxResult == [kind |-> "none", value |-> "none", context |-> "none", message |-> "none"]

HxValue(v) == [kind |-> "value", value |-> v, context |-> "none", message |-> "none"]

\* throw formatApiError(error, context)
formatApiError(op, message) ==
    [kind |-> "error", value |-> "none", context |-> HxContext(op), message |-> message]

\* getRecentTransactions without the special case of 404
RecentTransactionsResultNo404(response) ==
    IF ~ResponseOk(response)
    THEN formatApiError("getRecentTransactions", "Helius request failed with status")
    ELSE IF response.body # "array"
    THEN formatApiError("getRecentTransactions", "Helius API returned invalid data format")
    ELSE HxValue("transactions")

\* getRecentTransactions after fetchWithRetry returned (helius.ts 116-133)
RecentTransactionsResult(response) ==
    IF response.status = 404
    THEN HxValue("emptyList")
    ELSE IF ~ResponseOk(response)
    THEN formatApiError("getRecentTransactions", "Helius request failed with status")
    ELSE IF response.body = "invalid"
    THEN formatApiError("getRecentTransactions", "json parse error")
    ELSE IF response.body # "array"
    THEN formatApiError("getRecentTransactions", "Helius API returned invalid data format")
    ELSE HxValue("transactions")

\* getAssetsByOwner after fetchWithRetry returned (helius.ts 71-85)
AssetsByOwnerResult(response) ==
    IF ~ResponseOk(response)
    THEN formatApiError("getAssetsByOwner", "Helius request failed with status")
    ELSE IF response.body = "invalid"
    THEN formatApiError("getAssetsByOwner", "json parse error")
    ELSE IF response.body = "rpcerror"
    THEN formatApiError("getAssetsByOwner", "Helius RPC error")
    ELSE IF response.body # "result"
    THEN formatApiError("getAssetsByOwner", "Helius RPC payload is missing a result field")
    ELSE HxValue("assets")

HxCallerResult(op, response) ==
    IF op = "getRecentTransactions"
    THEN RecentTransactionsResult(response)
    ELSE AssetsByOwnerResult(response)

HxIdle ==
    /\ hxOp = "getRecentTransactions"
    /\ hxApiKey = TRUE
    /\ hxAddressValid = TRUE
    /\ hxPc = "idle"
    /\ hxAttempt = 0
    /\ hxRequests = 0
    /\ hxStatuses = <<>>
    /\ hxDelays = <<>>
    /\ hxLastResponse = NoResponse
    /\ hxResult = NoHxResult

HxInit ==
    /\ hxOp \in HxOps
    /\ hxApiKey \in BOOLEAN
    /\ hxAddressValid \in BOOLEAN
    /\ hxPc = "start"
    /\ hxAttempt = 0
    /\ hxRequests = 0
    /\ hxStatuses = <<>>
    /\ hxDelays = <<>>
    /\ hxLastResponse = NoResponse
    /\ hxResult = NoHxResult

\* entry of the caller up to the first fetch (helius.ts 43-51, 96-112, 15-16)
HxStart ==
    /\ hxPc = "start"
    /\ IF ~hxAddressValid
       THEN /\ hxResult' = formatApiError(hxOp, "Invalid Solana address")
            /\ hxPc' = "done"
            /\ UNCHANGED hxRequests
       ELSE IF ~hxApiKey
       THEN /\ hxResult' = formatApiError(hxOp, "HELIUS_API_KEY environment variable is not set")
            /\ hxPc' = "done"
            /\ UNCHANGED hxRequests
       ELSE /\ hxPc' = "fetch"
            /\ hxRequests' = hxRequests + 1
            /\ UNCHANGED hxResult
    /\ UNCHANGED <<hxOp, hxApiKey, hxAddressValid, hxAttempt, hxStatuses, hxDelays,
                   hxLastResponse>>

\* fetch resolves with a response (helius.ts 16-25, then the caller)
HxFetchResponds ==
    /\ hxPc = "fetch"
    /\ \E response \in HxResponses :
        /\ hxStatuses' = Append(hxStatuses, response.status)
        /\ IF ReturnsResponse(response.status, hxAttempt)
           THEN /\ hxResult' = HxCallerResult(hxOp, response)
                /\ hxPc' = "done"
                /\ UNCHANGED <<hxDelays, hxLastResponse>>
           ELSE /\ hxLastResponse' = response
                /\ hxDelays' = Append(hxDelays, BackoffDelay(hxAttempt))
                /\ hxPc' = "backoff"
                /\ UNCHANGED hxResult
    /\ UNCHANGED <<hxOp, hxApiKey, hxAddressValid, hxAttempt, hxRequests>>

\* fetch rejects (network failure): the exception leaves fetchWithRetry and is
\* wrapped by the caller's catch block
HxFetchThrows ==
    /\ hxPc = "fetch"
    /\ hxResult' = formatApiError(hxOp, "fetch failed")
    /\ hxPc' = "done"
    /\ UNCHANGED <<hxOp, hxApiKey, hxAddressValid, hxAttempt, hxRequests, hxStatuses,
                   hxDelays, hxLastResponse>>

\* the back-off timer fires: attempt++ and the next fetch (helius.ts 15-16, 25)
HxBackoffElapsed ==
    /\ hxPc = "backoff"
    /\ hxAttempt' = hxAttempt + 1
    /\ IF hxAttempt + 1 <= MAX_RETRIES
       THEN /\ hxPc' = "fetch"
            /\ hxRequests' = hxRequests + 1
            /\ UNCHANGED hxResult
       ELSE /\ hxPc' = "done"
            /\ hxResult' = HxCallerResult(hxOp, hxLastResponse)
            /\ UNCHANGED hxRequests
    /\ UNCHANGED <<hxOp, hxApiKey, hxAddressValid, hxStatuses, hxDelays, hxLastResponse>>

IsPrefix(s, t) == Len(s) <= Len(t) /\ \A i \in 1..Len(s) : s[i] = t[i]

\* C10: a call through fetchWithRetry makes at most 4 HTTP attempts; it retries
\* only on 429, waits 500, 1000, 2000 ms between attempts, returns on the first
\* response that is not 429, and after the fourth consecutive 429 gives up,
\* the caller then raising an error that names the failed operation.
C10_BoundedRetry ==
    /\ hxRequests <= MAX_RETRIES + 1
    /\ hxRequests <= 4
    /\ IsPrefix(hxDelays, <<500, 1000, 2000>>)
    /\ Len(hxDelays) = hxAttempt \/ (hxPc = "backoff" /\ Len(hxDelays) = hxAttempt + 1)
    /\ \A i \in 1..Len(hxDelays) : hxStatuses[i] = 429
    /\ \A i \in 1..Len(hxStatuses) :
           hxStatuses[i] # 429 => (i = Len(hxStatuses) /\ hxPc = "done")
    /\ hxPc \in {"fetch", "backoff"} => hxRequests = Len(hxStatuses) + (IF hxPc = "fetch" THEN 1 ELSE 0)
    /\ hxStatuses = <<429, 429, 429, 429>> =>
           /\ hxPc = "done"
           /\ hxRequests = 4
           /\ hxResult.kind = "error"
           /\ hxResult.context = HxContext(hxOp)
           /\ hxResult.message = "Helius request failed with status"

\* four consecutive 429 answers were received and the call ended in an error
C10_Witness ==
    /\ hxPc = "done"
    /\ hxStatuses = <<429, 429, 429, 429>>
    /\ hxDelays = <<500, 1000, 2000>>
    /\ hxRequests = 4
    /\ hxResult.kind = "error"

\* C11: getRecentTransactions returns an empty list, never an error, when the
\* response fetchWithRetry hands back has status 404, whatever its body and
\* however many 429 answers came before it.
C11_NotFoundIsEmptyList ==
    (/\ hxOp = "getRecentTransactions"
     /\ hxPc = "done"
     /\ Len(hxStatuses) > 0
     /\ hxStatuses[Len(hxStatuses)] = 404)
        => hxResult = HxValue("emptyList")

\* two rate-limited attempts, then 404: the call returned the empty list
C11_Witness ==
    /\ hxOp = "getRecentTransactions"
    /\ hxPc = "done"
    /\ hxStatuses = <<429, 429, 404>>
    /\ hxResult = HxValue("emptyList")

(***************************************************************************)
(* getSolPriceUsd: the SOL price cache of the transactions route.          *)
(* cachedSolPrice and solPriceFetchedAt are module-level; each caller is a  *)
(* GET request awaiting the price.  The feed's answers are steps of the     *)
(* environment; the code's continuations are steps of their own.            *)
(***************************************************************************)
PRICE_CACHE_TTL_MS == 60000

DEFAULT_SOL_PRICE == 170

\* cachedSolPrice = null
Null == -1

\* bound: how many times the clock advances
MaxTicks == 3

\* Date.now() advances in steps of half the TTL
TickMs == 30000

PriceCallers == {"req1", "req2"}

\* prices the feed can report
FeedPrices == {150, 180}

NoAnswer == [kind |-> "none", price |-> 0]

\* how the fetch settles: it rejects, or resolves with a status that is OK or not
FetchAnswers == { [kind |-> k, price |-> 0] : k \in {"throw", "nonok", "ok"} }

\* what res.json() gives: a parse failure, a payload without a numeric
\* solana.usd, or a payload with a number (a price, or 0)
JsonAnswers ==
    { [kind |-> k, price |-> 0] : k \in {"invalidjson", "nonnumber"} }
        \cup { [kind |-> "number", price |-> q] : q \in FeedPrices \cup {0} }

\* cachedSolPrice ?? 170, with the default replaced by 0
PriceFallbackZero(cached) == IF cached = Null THEN 0 ELSE cached

\* return cachedSolPrice ?? 170
PriceFallback(cached) == IF cached = Null THEN DEFAULT_SOL_PRICE ELSE cached

\* cachedSolPrice && now - solPriceFetchedAt < PRICE_CACHE_TTL_MS
PriceCacheFresh(cached, fetchedAt, now) ==
    cached # Null /\ cached # 0 /\ now - fetchedAt < PRICE_CACHE_TTL_MS

\* typeof price === 'number' && price > 0
PriceUsable(answer) == answer.kind = "number" /\ answer.price > 0

SpIdle ==
    /\ cachedSolPrice = Null
    /\ solPriceFetchedAt = 0
    /\ spClock = 0
    /\ spPc = [c \in PriceCallers |-> "off"]
    /\ spNow = [c \in PriceCallers |-> 0]
    /\ spAnswer = [c \in PriceCallers |-> NoAnswer]
    /\ spReturn = [c \in PriceCallers |-> 0]
    /\ spHow = [c \in PriceCallers |-> "none"]
    /\ spLastGood = Null

SpInit ==
    /\ cachedSolPrice = Null
    /\ solPriceFetchedAt = 0
    /\ spClock = 0
    /\ spPc = [c \in PriceCallers |-> "idle"]
    /\ spNow = [c \in PriceCallers |-> 0]
    /\ spAnswer = [c \in PriceCallers |-> NoAnswer]
    /\ spReturn = [c \in PriceCallers |-> 0]
    /\ spHow = [c \in PriceCallers |-> "none"]
    /\ spLastGood = Null

\* the fall-through return of getSolPriceUsd (line 72)
SpReturnFallback(c) ==
    /\ spReturn' = [spReturn EXCEPT ![c] = PriceFallback(cachedSolPrice)]
    /\ spHow' = [spHow EXCEPT ![c] = "fallback"]
    /\ spPc' = [spPc EXCEPT ![c] = "done"]
    /\ spAnswer' = [spAnswer EXCEPT ![c] = NoAnswer]
    /\ UNCHANGED <<cachedSolPrice, solPriceFetchedAt, spLastGood>>

\* a request calls getSolPriceUsd: lines 46-55, up to the await of fetch
SpCall(c) ==
    /\ spPc[c] \in {"idle", "done"}
    /\ spNow' = [spNow EXCEPT ![c] = spClock]
    /\ IF PriceCacheFresh(cachedSolPrice, solPriceFetchedAt, spClock)
       THEN /\ spReturn' = [spReturn EXCEPT ![c] = cachedSolPrice]
            /\ spHow' = [spHow EXCEPT ![c] = "cache"]
            /\ spPc' = [spPc EXCEPT ![c] = "done"]
       ELSE /\ spReturn' = [spReturn EXCEPT ![c] = 0]
            /\ spHow' = [spHow EXCEPT ![c] = "none"]
            /\ spPc' = [spPc EXCEPT ![c] = "fetch"]
    /\ UNCHANGED <<cachedSolPrice, solPriceFetchedAt, spClock, spAnswer, spLastGood>>

\* the feed settles the fetch promise
SpFeedAnswers(c) ==
    /\ spPc[c] = "fetch"
    /\ \E a \in FetchAnswers : spAnswer' = [spAnswer EXCEPT ![c] = a]
    /\ spPc' = [spPc EXCEPT ![c] = "fetched"]
    /\ UNCHANGED <<cachedSolPrice, solPriceFetchedAt, spClock, spNow, spReturn, spHow,
                   spLastGood>>

\* the continuation after await fetch: lines 57-58, 67-72
SpHandleFetch(c) ==
    /\ spPc[c] = "fetched"
    /\ IF spAnswer[c].kind = "ok"
       THEN /\ spPc' = [spPc EXCEPT ![c] = "json"]
            /\ spAnswer' = [spAnswer EXCEPT ![c] = NoAnswer]
            /\ UNCHANGED <<cachedSolPrice, solPriceFetchedAt, spReturn, spHow, spLastGood>>
       ELSE SpReturnFallback(c)
    /\ UNCHANGED <<spClock, spNow>>

\* the body arrives and res.json() settles
SpBodyArrives(c) ==
    /\ spPc[c] = "json"
    /\ \E a \in JsonAnswers : spAnswer' = [spAnswer EXCEPT ![c] = a]
    /\ spPc' = [spPc EXCEPT ![c] = "parsed"]
    /\ UNCHANGED <<cachedSolPrice, solPriceFetchedAt, spClock, spNow, spReturn, spHow,
                   spLastGood>>

\* the continuation after await res.json(): lines 59-72
SpHandleJson(c) ==
    /\ spPc[c] = "parsed"
    /\ IF PriceUsable(spAnswer[c])
       THEN /\ cachedSolPrice' = spAnswer[c].price
            /\ solPriceFetchedAt' = spNow[c]
            /\ spLastGood' = spAnswer[c].price
            /\ spReturn' = [spReturn EXCEPT ![c] = spAnswer[c].price]
            /\ spHow' = [spHow EXCEPT ![c] = "fetched"]
            /\ spPc' = [spPc EXCEPT ![c] = "done"]
            /\ spAnswer' = [spAnswer EXCEPT ![c] = NoAnswer]
       ELSE SpReturnFallback(c)
    /\ UNCHANGED <<spClock, spNow>>

\* time passes
SpTick ==
    /\ spClock < MaxTicks * TickMs
    /\ spClock' = spClock + TickMs
    /\ UNCHANGED <<cachedSolPrice, solPriceFetchedAt, spPc, spNow, spAnswer, spReturn,
                   spHow, spLastGood>>

\* the answer being handled is one of the failures: a rejected fetch, a non-OK
\* status, an unparsable body, or a payload without a positive numeric price
SpFailedAnswer(a) ==
    \/ a.kind \in {"throw", "nonok", "invalidjson", "nonnumber"}
    \/ a.kind = "number" /\ a.price <= 0

\* C8: getSolPriceUsd never fails its caller; when the request throws, is not
\* OK or carries no positive numeric price, the call returns the last
\* successfully fetched price (however old), or 170 if there is none, and the
\* cached price and its timestamp stay as they are.
C8_PriceFallback ==
    /\ [](\A c \in PriceCallers : spPc[c] = "done" => spReturn[c] > 0)
    /\ [][\A c \in PriceCallers :
            (spPc[c] \in {"fetched", "parsed"} /\ SpFailedAnswer(spAnswer[c])
                /\ spPc'[c] # spPc[c])
            => /\ spPc'[c] = "done"
               /\ spReturn'[c] = (IF spLastGood = Null THEN 170 ELSE spLastGood)
               /\ cachedSolPrice' = cachedSolPrice
               /\ solPriceFetchedAt' = solPriceFetchedAt]_vars

\* a call whose request failed returned a cached price older than 60 seconds
C8_Witness ==
    \E c \in PriceCallers :
        /\ spPc[c] = "done"
        /\ spHow[c] = "fallback"
        /\ cachedSolPrice # Null
        /\ spReturn[c] = cachedSolPrice
        /\ spNow[c] - solPriceFetchedAt >= 60000

\* C9: every call of getSolPriceUsd that awaits the price feed eventually
\* returns, so the request gets past its price step.
C9_AlwaysReturns ==
    \A c \in PriceCallers : (spPc[c] = "fetch") ~> (spPc[c] = "done")

\* caller c enters getSolPriceUsd in this step
SpCallStep(c) == spPc[c] \in {"idle", "done"} /\ spPc'[c] # spPc[c]

\* C23: a call made less than 60 seconds after a call that fetched the price
\* successfully (counted from the moment that call was made, which is before
\* its fetch completed) returns the cached price without contacting the feed;
\* a call made when the cached price is 60 seconds old or older contacts the
\* feed.
C23_CachedForSixtySeconds ==
    [][\A c \in PriceCallers : SpCallStep(c) =>
        /\ (\E d \in PriceCallers :
                /\ spPc[d] = "done"
                /\ spHow[d] = "fetched"
                /\ spClock - spNow[d] < PRICE_CACHE_TTL_MS)
            => /\ spPc'[c] = "done"
               /\ spHow'[c] = "cache"
               /\ spReturn'[c] = cachedSolPrice
        /\ (cachedSolPrice # Null /\ spClock - solPriceFetchedAt >= PRICE_CACHE_TTL_MS)
            => spPc'[c] = "fetch"]_vars

(***************************************************************************)
(* resolveSymbols with loadJupiterList and resolveViaHeliusDas.            *)
(* jupiterCache, jupiterCacheTs and dasCache are module-level.  A JS Map is *)
(* a function whose domain is its set of keys.  A step is the code between  *)
(* two awaits, taken together with the settling of the awaited promise.     *)
(***************************************************************************)
CACHE_TTL_MS == 600000

\* bound: how many times the resolver's clock advances
RsMaxTicks == 2

\* Date.now() advances in steps of half the TTL
RsTickMs == 300000

\* bound: longest list of mints passed to resolveSymbols
MaxMints == 2

WSOL_MINT == <<"S","o","1","1","1","1","1","1","1","1","1","1","1","1","1","1","1","1","1","1","1","1","1","1","1","1","1","1","1","1","1","1","1","1","1","1","1","1","1","1","1","1","2">>

\* a mint of the bulk list, a mint only the metadata service knows, and two
\* mints nobody knows: one longer than 10 characters and one not
MintBonk == <<"D","e","z","X","A","Z","8","z","7","P","n","r","n","R","J","j","z","3","w","X">>

MintPump == <<"9","x","Q","e","W","v","G","8","1","6","b","U","x","9","E","P","p","u","m","p">>

MintLong == <<"7","G","C","i","h","g","D","B","8","f","e","6","K","N","j","n","2","M","Y","t">>

MintShort == <<"a","b","c","D","E","F","1","2","3">>

Mints == {MintBonk, MintPump, MintLong, MintShort}

MintLists == UNION { [1..n -> Mints] : n \in 0..MaxMints }

EmptyMap == [x \in {} |-> EmptyStr]

\* Map.prototype.set
MapSet(map, k, v) == [x \in (DOMAIN map) \cup {k} |-> IF x = k THEN v ELSE map[x]]

\* Map.prototype.has
MapHas(map, k) == k \in DOMAIN map

\* the token lists the bulk endpoint may return (address, symbol)
JupTokenLists ==
    { <<[address |-> MintBonk, symbol |-> <<"B","O","N","K">>]>>,
      <<[address |-> MintBonk, symbol |-> <<"B","o","n","k">>],
        [address |-> MintPump, symbol |-> <<"P","U","M","P">>]>> }

\* how the bulk list request ends: fetch rejects, the status is not OK, the
\* body does not parse, or a token list arrives
JupAnswers ==
    { [kind |-> k, tokens |-> <<>>] : k \in {"throw", "nonok", "invalidjson"} }
        \cup { [kind |-> "tokens", tokens |-> l] : l \in JupTokenLists }

RECURSIVE JupMapOf(_, _, _)
\* for (const t of tokens) map.set(t.address, t)
JupMapOf(tokens, i, map) ==
    IF i > Len(tokens)
    THEN map
    ELSE JupMapOf(tokens, i + 1, MapSet(map, tokens[i].address, tokens[i].symbol))

\* the map built from a token list, wSOL always included (lines 96-105)
JupMap(tokens) == MapSet(JupMapOf(tokens, 1, EmptyMap), WSOL_MINT, <<"S","O","L">>)

\* the assets the metadata service knows: content.metadata.symbol,
\* content.metadata.name, token_info.symbol ('' when absent)
DasAssets ==
    { [id |-> MintPump, metaSymbol |-> EmptyStr,
       metaName |-> <<"P","u","m","p","F","u","n","L","o","n","g","T","o","k","e","n","N","a","m","e">>,
       tokenSymbol |-> <<"P","F","U","N">>],
      [id |-> MintBonk, metaSymbol |-> <<"B","O","N","K","D","A","S">>,
       metaName |-> <<"B","o","n","k">>, tokenSymbol |-> EmptyStr],
      [id |-> MintShort, metaSymbol |-> EmptyStr, metaName |-> EmptyStr,
       tokenSymbol |-> EmptyStr] }

\* how getAssetBatch ends: fetch rejects, the status is not OK, the body has no
\* result array, or the assets known for the requested ids arrive
DasAnswers == {"throw", "nonok", "noarray", "assets"}

\* the symbol taken from one asset (lines 176-193), '' when it has none
AssetSymbol(asset) ==
    LET symbol == IF asset.metaSymbol # EmptyStr THEN asset.metaSymbol
                  ELSE IF asset.metaName # EmptyStr THEN asset.metaName
                  ELSE IF asset.tokenSymbol # EmptyStr THEN asset.tokenSymbol
                  ELSE EmptyStr
    IN  IF Len(symbol) > 12 THEN SubSeq(symbol, 1, 12) ELSE symbol

\* the entries the loop over body.result adds (lines 171-198)
DasResolved(toFetch) ==
    LET hits == { a \in DasAssets :
                    /\ \E i \in 1..Len(toFetch) : toFetch[i] = a.id
                    /\ AssetSymbol(a) # EmptyStr }
    IN  [x \in { a.id : a \in hits } |->
            AssetSymbol(CHOOSE a \in hits : a.id = x)]

\* the character U+2026 (horizontal ellipsis)
Ellipsis == "U+2026"

\* the truncated form with the length test reversed
TruncatedMintReversed(mint) ==
    IF Len(mint) <= 10
    THEN SubSeq(mint, 1, 4) \o <<Ellipsis>> \o SubSeq(mint, Len(mint) - 3, Len(mint))
    ELSE mint

\* mint.length > 10 ? `${mint.slice(0, 4)}<U+2026>${mint.slice(-4)}` : mint
TruncatedMint(mint) ==
    IF Len(mint) > 10
    THEN SubSeq(mint, 1, 4) \o <<Ellipsis>> \o SubSeq(mint, Len(mint) - 3, Len(mint))
    ELSE mint

RECURSIVE PartitionMintsCacheFirst(_, _, _, _, _)
\* a partition that sends a mint to the second tier whenever the per-mint
\* cache holds it, the bulk list notwithstanding
PartitionMintsCacheFirst(mints, i, jupList, result, unknowns) ==
    IF i > Len(mints)
    THEN [result |-> result, unknowns |-> unknowns]
    ELSE IF MapHas(jupList, mints[i]) /\ ~MapHas(dasCache, mints[i])
    THEN PartitionMintsCacheFirst(mints, i + 1, jupList,
                                  MapSet(result, mints[i], jupList[mints[i]]), unknowns)
    ELSE PartitionMintsCacheFirst(mints, i + 1, jupList, result,
                                  Append(unknowns, mints[i]))

RECURSIVE PartitionMints(_, _, _, _, _)
\* the loop of resolveSymbols over mints (lines 224-231)
PartitionMints(mints, i, jupList, result, unknowns) ==
    IF i > Len(mints)
    THEN [result |-> result, unknowns |-> unknowns]
    ELSE IF MapHas(jupList, mints[i])
    THEN PartitionMints(mints, i + 1, jupList,
                        MapSet(result, mints[i], jupList[mints[i]]), unknowns)
    ELSE PartitionMints(mints, i + 1, jupList, result, Append(unknowns, mints[i]))

RECURSIVE CheckDasCache(_, _, _, _, _)
\* the loop of resolveViaHeliusDas over unknownMints (lines 132-139)
CheckDasCache(unknownMints, i, cache, result, toFetch) ==
    IF i > Len(unknownMints)
    THEN [result |-> result, toFetch |-> toFetch]
    ELSE IF MapHas(cache, unknownMints[i]) /\ cache[unknownMints[i]] # EmptyStr
    THEN CheckDasCache(unknownMints, i + 1, cache,
                       MapSet(result, unknownMints[i], cache[unknownMints[i]]), toFetch)
    ELSE CheckDasCache(unknownMints, i + 1, cache, result,
                       Append(toFetch, unknownMints[i]))

\* for (const [mint, symbol] of dasResults) result.set(mint, symbol)
MapMerge(result, dasResults) ==
    [x \in (DOMAIN result) \cup (DOMAIN dasResults) |->
        IF x \in DOMAIN dasResults THEN dasResults[x] ELSE result[x]]

RECURSIVE FillTruncated(_, _, _)
\* the loop over unknowns that sets the truncated address (lines 241-249)
FillTruncated(unknowns, i, result) ==
    IF i > Len(unknowns)
    THEN result
    ELSE IF MapHas(result, unknowns[i])
    THEN FillTruncated(unknowns, i + 1, result)
    ELSE FillTruncated(unknowns, i + 1,
                       MapSet(result, unknowns[i], TruncatedMint(unknowns[i])))

ResolverCalls == {"call1", "call2"}

\* let jupiterCache = null
NoJupCache == [set |-> FALSE, map |-> EmptyMap]

NoDasLocals == [result |-> EmptyMap, toFetch |-> <<>>]

RsIdle ==
    /\ jupiterCache = NoJupCache
    /\ jupiterCacheTs = 0
    /\ dasCache = EmptyMap
    /\ rsClock = 0
    /\ rsApiKey = TRUE
    /\ rsMints = <<>>
    /\ rsPc = [c \in ResolverCalls |-> "off"]
    /\ rsNow = [c \in ResolverCalls |-> 0]
    /\ rsJup = [c \in ResolverCalls |-> "none"]
    /\ rsJupList = [c \in ResolverCalls |-> EmptyMap]
    /\ rsResult = [c \in ResolverCalls |-> EmptyMap]
    /\ rsUnknowns = [c \in ResolverCalls |-> <<>>]
    /\ rsDas = [c \in ResolverCalls |-> NoDasLocals]
    /\ rsRaised = [c \in ResolverCalls |-> FALSE]
    /\ rsAfter = [c \in ResolverCalls |-> {}]
    /\ jupRequests = 0
    /\ dasRequests = 0

\* the module is loaded, both caches empty; the same mint list is resolved by
\* both calls; HELIUS_API_KEY is set or not
RsInit ==
    /\ jupiterCache = NoJupCache
    /\ jupiterCacheTs = 0
    /\ dasCache = EmptyMap
    /\ rsClock = 0
    /\ rsApiKey \in BOOLEAN
    /\ rsMints \in MintLists
    /\ rsPc = [c \in ResolverCalls |-> "idle"]
    /\ rsNow = [c \in ResolverCalls |-> 0]
    /\ rsJup = [c \in ResolverCalls |-> "none"]
    /\ rsJupList = [c \in ResolverCalls |-> EmptyMap]
    /\ rsResult = [c \in ResolverCalls |-> EmptyMap]
    /\ rsUnknowns = [c \in ResolverCalls |-> <<>>]
    /\ rsDas = [c \in ResolverCalls |-> NoDasLocals]
    /\ rsRaised = [c \in ResolverCalls |-> FALSE]
    /\ rsAfter = [c \in ResolverCalls |-> {}]
    /\ jupRequests = 0
    /\ dasRequests = 0

\* the cache test with the age comparison reversed
JupCacheFreshReversed(cache, ts, now) == cache.set /\ now - ts > CACHE_TTL_MS

\* jupiterCache && now - jupiterCacheTs < CACHE_TTL_MS
JupCacheFresh(cache, ts, now) == cache.set /\ now - ts < CACHE_TTL_MS

\* a failure that hands back an empty list whatever the cache holds
JupListOnFailureEmpty(cache) == EmptyMap

\* return jupiterCache ?? new Map()
JupListOnFailure(cache) == IF cache.set THEN cache.map ELSE EmptyMap

\* whether a rejected getAssetBatch request leaves resolveViaHeliusDas as an
\* exception, were the try block (lines 149-205) missing
DasThrowEscapesUncaught(answer) == answer = "throw"

\* whether a failed getAssetBatch request leaves resolveViaHeliusDas as an
\* exception: the try block catches it (lines 149, 203-205)
DasThrowEscapes(answer) == FALSE

\* the end of resolveSymbols once dasResults is known (lines 236-252)
RsFinish(c, result, unknowns, dasResults) ==
    /\ rsResult' = [rsResult EXCEPT
                      ![c] = FillTruncated(unknowns, 1, MapMerge(result, dasResults))]
    /\ rsPc' = [rsPc EXCEPT ![c] = "done"]

\* resolveSymbols from the moment loadJupiterList returned jupList up to the
\* await of the getAssetBatch request, or to the return (lines 221-235, 128-162)
RsAfterJup(c, jupList) ==
    LET part == PartitionMints(rsMints, 1, jupList, EmptyMap, <<>>)
        das == CheckDasCache(part.unknowns, 1, dasCache, EmptyMap, <<>>)
    IN  /\ rsJupList' = [rsJupList EXCEPT ![c] = jupList]
        /\ rsUnknowns' = [rsUnknowns EXCEPT ![c] = part.unknowns]
        /\ IF Len(part.unknowns) = 0
           THEN /\ rsResult' = [rsResult EXCEPT ![c] = part.result]
                /\ rsPc' = [rsPc EXCEPT ![c] = "done"]
                /\ UNCHANGED <<rsDas, dasRequests>>
           ELSE IF Len(das.toFetch) = 0 \/ ~rsApiKey
           THEN /\ RsFinish(c, part.result, part.unknowns, das.result)
                /\ rsDas' = [rsDas EXCEPT ![c] = das]
                /\ UNCHANGED dasRequests
           ELSE /\ rsResult' = [rsResult EXCEPT ![c] = part.result]
                /\ rsDas' = [rsDas EXCEPT ![c] = das]
                /\ rsPc' = [rsPc EXCEPT ![c] = "dasFetch"]
                /\ dasRequests' = dasRequests + 1

\* resolveSymbols is called: loadJupiterList up to its await of fetch, or, with
\* a fresh cache, on to the partition of the mints (lines 220, 85-91)
RsCall(c) ==
    /\ rsPc[c] = "idle"
    /\ rsNow' = [rsNow EXCEPT ![c] = rsClock]
    /\ rsAfter' = [rsAfter EXCEPT ![c] = { d \in ResolverCalls : rsPc[d] = "done" }]
    /\ IF JupCacheFresh(jupiterCache, jupiterCacheTs, rsClock)
       THEN /\ rsJup' = [rsJup EXCEPT ![c] = "cache"]
            /\ RsAfterJup(c, jupiterCache.map)
            /\ UNCHANGED jupRequests
       ELSE /\ rsJup' = [rsJup EXCEPT ![c] = "none"]
            /\ rsPc' = [rsPc EXCEPT ![c] = "jupFetch"]
            /\ jupRequests' = jupRequests + 1
            /\ UNCHANGED <<rsJupList, rsResult, rsUnknowns, rsDas, dasRequests>>
    /\ UNCHANGED <<jupiterCache, jupiterCacheTs, dasCache, rsClock, rsApiKey, rsMints,
                   rsRaised>>

\* the bulk list request settles: the rest of loadJupiterList (lines 93-114),
\* then resolveSymbols up to its next await
RsJupSettles(c) ==
    /\ rsPc[c] = "jupFetch"
    /\ \E answer \in JupAnswers :
        IF answer.kind = "tokens"
        THEN /\ jupiterCache' = [set |-> TRUE, map |-> JupMap(answer.tokens)]
             /\ jupiterCacheTs' = rsNow[c]
             /\ rsJup' = [rsJup EXCEPT ![c] = "ok"]
             /\ RsAfterJup(c, JupMap(answer.tokens))
        ELSE /\ rsJup' = [rsJup EXCEPT ![c] = "failed"]
             /\ RsAfterJup(c, JupListOnFailure(jupiterCache))
             /\ UNCHANGED <<jupiterCache, jupiterCacheTs>>
    /\ UNCHANGED <<dasCache, rsClock, rsApiKey, rsMints, rsNow, rsRaised, rsAfter,
                   jupRequests>>

\* the getAssetBatch request settles: the rest of resolveViaHeliusDas
\* (lines 164-207), then the end of resolveSymbols
RsDasSettles(c) ==
    /\ rsPc[c] = "dasFetch"
    /\ \E answer \in DasAnswers :
        IF DasThrowEscapes(answer)
        THEN /\ rsRaised' = [rsRaised EXCEPT ![c] = TRUE]
             /\ rsPc' = [rsPc EXCEPT ![c] = "done"]
             /\ UNCHANGED <<dasCache, rsResult>>
        ELSE IF answer = "assets"
        THEN LET resolved == DasResolved(rsDas[c].toFetch)
             IN  /\ dasCache' = MapMerge(dasCache, resolved)
                 /\ RsFinish(c, rsResult[c], rsUnknowns[c],
                             MapMerge(rsDas[c].result, resolved))
                 /\ UNCHANGED rsRaised
        ELSE /\ RsFinish(c, rsResult[c], rsUnknowns[c], rsDas[c].result)
             /\ UNCHANGED <<dasCache, rsRaised>>
    /\ UNCHANGED <<jupiterCache, jupiterCacheTs, rsClock, rsApiKey, rsMints, rsNow,
                   rsJup, rsJupList, rsUnknowns, rsDas, rsAfter, jupRequests,
                   dasRequests>>

\* time passes
RsTick ==
    /\ rsClock < RsMaxTicks * RsTickMs
    /\ rsClock' = rsClock + RsTickMs
    /\ UNCHANGED <<jupiterCache, jupiterCacheTs, dasCache, rsApiKey, rsMints, rsPc,
                   rsNow, rsJup, rsJupList, rsResult, rsUnknowns, rsDas, rsRaised,
                   rsAfter, jupRequests, dasRequests>>

\* the truncated identifiers, written out: first 4 and last 4 characters
\* around an ellipsis for a mint longer than 10 characters, else the mint
ExpectedTruncated(mint) ==
    IF mint = MintBonk THEN <<"D","e","z","X", Ellipsis, "z","3","w","X">>
    ELSE IF mint = MintPump THEN <<"9","x","Q","e", Ellipsis, "p","u","m","p">>
    ELSE IF mint = MintLong THEN <<"7","G","C","i", Ellipsis, "2","M","Y","t">>
    ELSE <<"a","b","c","D","E","F","1","2","3">>

\* C4: whatever the bulk list request and the metadata request do,
\* resolveSymbols returns without raising a map that has every requested mint
\* as a key, and a mint that neither the bulk list nor the metadata tier
\* resolved maps to the truncated form of its identifier.
C4_EveryMintResolved ==
    \A c \in ResolverCalls :
        rsPc[c] = "done" =>
            /\ ~rsRaised[c]
            /\ \A i \in 1..Len(rsMints) :
                LET mint == rsMints[i]
                IN  /\ mint \in DOMAIN rsResult[c]
                    /\ (mint \notin DOMAIN rsJupList[c] /\ mint \notin DOMAIN dasCache)
                           => rsResult[c][mint] = ExpectedTruncated(mint)
                    /\ mint \in {MintLong, MintShort}
                           => rsResult[c][mint] = ExpectedTruncated(mint)

\* a call whose bulk list request failed and whose metadata request was made
\* and resolved nothing returned the truncated identifiers
C4_Witness ==
    \E c \in ResolverCalls :
        /\ rsPc[c] = "done"
        /\ rsJup[c] = "failed"
        /\ rsApiKey
        /\ dasRequests >= 1
        /\ rsMints = <<MintPump, MintLong>>
        /\ dasCache = EmptyMap
        /\ rsResult[c][MintPump] = <<"9","x","Q","e", Ellipsis, "p","u","m","p">>
        /\ rsResult[c][MintLong] = <<"7","G","C","i", Ellipsis, "2","M","Y","t">>

\* C5 as stated: when the second call starts after the first returned and
\* less than 10 minutes after the first started, the two calls issue at most
\* one bulk list request.
C5_NoSecondFetch ==
    \A a, b \in ResolverCalls :
        ( /\ a # b
          /\ rsPc[b] = "done"
          /\ a \in rsAfter[b]
          /\ rsNow[b] - rsNow[a] < 600000 )
        => jupRequests <= 1

\* C5 as amended: when the bulk list request of the first call succeeded, and
\* the second call starts after the first returned and less than 10 minutes
\* after the first started, the second call is served from the cache and the
\* two calls issue exactly one bulk list request.
C5_NoSecondFetchAfterSuccess ==
    \A a, b \in ResolverCalls :
        ( /\ a # b
          /\ rsPc[b] # "idle"
          /\ a \in rsAfter[b]
          /\ rsJup[a] = "ok"
          /\ rsNow[b] - rsNow[a] < 600000 )
        => /\ rsJup[b] = "cache"
           /\ jupRequests = 1

\* the second call started later than, and within the TTL of, a first call
\* whose request succeeded, and was served from the cache
C5_Witness ==
    \E a, b \in ResolverCalls :
        /\ a # b
        /\ rsPc[b] = "done"
        /\ a \in rsAfter[b]
        /\ rsJup[a] = "ok"
        /\ rsNow[b] > rsNow[a]
        /\ rsNow[b] - rsNow[a] < 600000
        /\ rsJup[b] = "cache"
        /\ jupRequests = 1

\* C16: a step in which the bulk list request of a call fails (fetch rejects,
\* non-OK status, unparsable body) raises nothing, hands the call the list
\* cached at that moment (the empty list when nothing is cached) and leaves
\* jupiterCache and jupiterCacheTs as they were.
C16_FailedFetchReusesCache ==
    [][\A c \in ResolverCalls :
          (rsPc[c] = "jupFetch" /\ rsJup'[c] = "failed") =>
              /\ jupiterCache' = jupiterCache
              /\ jupiterCacheTs' = jupiterCacheTs
              /\ rsJupList'[c] = IF jupiterCache.set THEN jupiterCache.map ELSE EmptyMap
              /\ rsRaised'[c] = FALSE
              /\ rsPc'[c] # "jupFetch"]_vars

\* the request of one call failed after the other call had filled the cache:
\* the failed call works with the cached list
C16_Witness ==
    \E c \in ResolverCalls :
        /\ rsJup[c] = "failed"
        /\ jupiterCache.set
        /\ rsJupList[c] = jupiterCache.map
        /\ MintBonk \in DOMAIN rsJupList[c]
        /\ ~rsRaised[c]

\* the getAssetBatch request of call c ends in this step with assets whose
\* symbols are stored (lines 171-198)
DasStoreStep(c) ==
    LET resolved == DasResolved(rsDas[c].toFetch)
    IN  /\ rsPc[c] = "dasFetch"
        /\ rsPc'[c] = "done"
        /\ resolved # EmptyMap
        /\ \A m \in DOMAIN resolved : rsResult'[c][m] = resolved[m]

\* C20: under any interleaving of concurrent resolveSymbols calls a cache is
\* replaced as a whole and never modified in place: a call that stores the
\* answer of its request leaves the cache holding exactly the map built from
\* that answer; the symbol the metadata cache holds for a mint is the same
\* before and after every step; and the list a call works with is
\* a complete map (the empty one, or the map of one whole token list).
C20_CachesReplacedWhole ==
    [][\A c \in ResolverCalls :
        /\ (rsPc[c] = "jupFetch" /\ rsJup'[c] = "ok") =>
            jupiterCache' = [set |-> TRUE, map |-> rsJupList'[c]]
        /\ DasStoreStep(c) => dasCache' = DasResolved(rsDas[c].toFetch)
        /\ \A m \in (DOMAIN dasCache) \cap (DOMAIN dasCache') : dasCache'[m] = dasCache[m]
        /\ rsJupList'[c] \in {EmptyMap} \cup { JupMap(l) : l \in JupTokenLists }]_vars

InSeq(x, s) == \E i \in 1..Len(s) : s[i] = x

\* calls that are past the partition of their mints
RsPartitioned == { c \in ResolverCalls : rsPc[c] \in {"dasFetch", "done"} }

\* C22: a mint found in the bulk list resolves to the bulk-list symbol, even
\* when the per-mint cache also holds an entry for it, and is never sent to
\* the metadata service; a mint not in the bulk list is taken from the
\* per-mint cache when it is there and is queried otherwise; each call issues
\* at most one metadata request, and none when nothing is missing.
C22_BulkListFirst ==
    /\ \A c \in RsPartitioned : \A i \in 1..Len(rsMints) :
        LET mint == rsMints[i]
        IN  IF MapHas(rsJupList[c], mint)
            THEN /\ rsResult[c][mint] = rsJupList[c][mint]
                 /\ ~InSeq(mint, rsUnknowns[c])
                 /\ ~InSeq(mint, rsDas[c].toFetch)
            ELSE /\ InSeq(mint, rsUnknowns[c])
                 /\ MapHas(rsDas[c].result, mint) # InSeq(mint, rsDas[c].toFetch)
                 /\ MapHas(rsDas[c].result, mint) =>
                        /\ MapHas(dasCache, mint)
                        /\ rsDas[c].result[mint] = dasCache[mint]
    /\ dasRequests <= Cardinality({ c \in RsPartitioned : rsDas[c].toFetch # <<>> })
    /\ rsApiKey => dasRequests = Cardinality({ c \in RsPartitioned : rsDas[c].toFetch # <<>> })

\* a call returned the bulk-list symbol of a mint for which the per-mint
\* cache holds another symbol, while the other call had queried that mint
C22_Witness ==
    \E c \in ResolverCalls :
        /\ rsPc[c] = "done"
        /\ MapHas(rsJupList[c], MintBonk)
        /\ MapHas(dasCache, MintBonk)
        /\ InSeq(MintBonk, rsMints)
        /\ rsResult[c][MintBonk] = rsJupList[c][MintBonk]
        /\ rsResult[c][MintBonk] # dasCache[MintBonk]
        /\ dasRequests = 1

\* C24: when the metadata credential is missing, the per-mint metadata lookup
\* of a call that has mints to query raises an error to its caller and issues
\* no metadata request.
C24_MissingCredentialIsFatal ==
    \A c \in ResolverCalls :
        (rsPc[c] = "done" /\ ~rsApiKey /\ rsDas[c].toFetch # <<>>)
            => rsRaised[c] /\ dasRequests = 0

(***************************************************************************)
(* GET of the time-analysis route: estimateTxPnlSol and the daily, hourly  *)
(* and session aggregation.  Amounts are integers in lamports; a SOL       *)
(* amount x is held as x * 10^9, and a value rounded by toFixed(6) as an    *)
(* integer number of millionths of a SOL.                                   *)
(***************************************************************************)
LAMPORTS_PER_SOL == 1000000000

\* lamports in one millionth of a SOL, the last digit toFixed(6) keeps
LamportsPerMicroSol == 1000

\* bound: longest batch of transactions
MaxBatch == 2

WHALE_WALLET == <<"W","h","a","L","e","1">>

\* an address that differs from the wallet only by case
WalletOtherCase == <<"w","h","a","l","e","1">>

OtherAccount == <<"P","o","o","l","2","2">>

\* an account field that is absent from the record (undefined)
MissingAccount == <<"undefined">>

\* a swap amount that Number() turns into NaN
NotANumber == -1

\* (Number(amount) || 0), in lamports
NumberOrZero(amount) == IF amount = NotANumber THEN 0 ELSE amount

NoLeg == [present |-> FALSE, amount |-> 0]

Leg(amount) == [present |-> TRUE, amount |-> amount]

NoSwap == [present |-> FALSE, nativeInput |-> NoLeg, nativeOutput |-> NoLeg]

Swap(nativeInput, nativeOutput) ==
    [present |-> TRUE, nativeInput |-> nativeInput, nativeOutput |-> nativeOutput]

NativeTransfer(from, to, amount) ==
    [fromUserAccount |-> from, toUserAccount |-> to, amount |-> amount]

\* the transactions the provider may return: timestamp in seconds, the swap
\* event's native legs, the native transfers
TaTxs ==
    { [timestamp |-> 3600, swap |-> Swap(Leg(400), NoLeg), nativeTransfers |-> <<>>],
      [timestamp |-> 86400 + 9 * 3600, swap |-> Swap(NoLeg, Leg(2000700)),
       nativeTransfers |-> <<NativeTransfer(WHALE_WALLET, OtherAccount, 5000)>>],
      [timestamp |-> 17 * 3600, swap |-> NoSwap,
       nativeTransfers |-> <<NativeTransfer(WHALE_WALLET, OtherAccount, 1000300)>>],
      [timestamp |-> 31 * 86400 + 23 * 3600 + 3599, swap |-> NoSwap,
       nativeTransfers |-> <<NativeTransfer(OtherAccount, WalletOtherCase, 400),
                             NativeTransfer(OtherAccount, OtherAccount, 999)>>],
      [timestamp |-> 2 * 3600, swap |-> Swap(Leg(NotANumber), Leg(400)),
       nativeTransfers |-> <<>>],
      [timestamp |-> 86400 + 8 * 3600, swap |-> Swap(NoLeg, NoLeg),
       nativeTransfers |-> <<NativeTransfer(WHALE_WALLET, WHALE_WALLET, 7000)>>],
      [timestamp |-> 5 * 3600, swap |-> NoSwap,
       nativeTransfers |-> <<NativeTransfer(OtherAccount, MissingAccount, 2000000)>>] }

TaBatches == UNION { [1..n -> TaTxs] : n \in 0..MaxBatch }

RECURSIVE NativeDelta(_, _, _, _)
\* the loop over tx.nativeTransfers (lines 72-80), in lamports
NativeDelta(transfers, i, walletLower, delta) ==
    IF i > Len(transfers)
    THEN delta
    ELSE LET nt == transfers[i]
             plus == IF toLowerCase(nt.toUserAccount) = walletLower THEN nt.amount ELSE 0
             minus == IF toLowerCase(nt.fromUserAccount) = walletLower THEN nt.amount ELSE 0
         IN  NativeDelta(transfers, i + 1, walletLower, delta + plus - minus)

\* estimateTxPnlSol, in lamports
estimateTxPnlSol(tx, walletAddress) ==
    IF tx.swap.present
    THEN LET solIn == IF tx.swap.nativeOutput.present
                      THEN NumberOrZero(tx.swap.nativeOutput.amount) ELSE 0
             solOut == IF tx.swap.nativeInput.present
                       THEN NumberOrZero(tx.swap.nativeInput.amount) ELSE 0
         IN  solIn - solOut
    ELSE NativeDelta(tx.nativeTransfers, 1, toLowerCase(walletAddress), 0)

\* Number(x.toFixed(6)) of a SOL amount given in lamports, in millionths
ToFixed6(lamports) ==
    IF lamports >= 0
    THEN (lamports + LamportsPerMicroSol \div 2) \div LamportsPerMicroSol
    ELSE -((-lamports + LamportsPerMicroSol \div 2) \div LamportsPerMicroSol)

\* d.getUTCFullYear(), getUTCMonth() + 1, getUTCDate() of new Date(ts * 1000),
\* for ts >= 0: the civil date of the day number ts \div 86400
CivilDate(ts) ==
    LET z == (ts \div 86400) + 719468
        era == z \div 146097
        doe == z - era * 146097
        yoe == (doe - doe \div 1460 + doe \div 36524 - doe \div 146096) \div 365
        doy == doe - (365 * yoe + yoe \div 4 - yoe \div 100)
        mp == (5 * doy + 2) \div 153
        d == doy - (153 * mp + 2) \div 5 + 1
        m == IF mp < 10 THEN mp + 3 ELSE mp - 9
        y == yoe + era * 400 + (IF m <= 2 THEN 1 ELSE 0)
    IN  <<y, m, d>>

\* toDateString: YYYY-MM-DD, held as <<year, month, day>>; the padding to a
\* fixed width makes the order of the strings the order of the triples
toDateString(ts) == CivilDate(ts)

\* a.date.localeCompare(b.date) < 0
DateBefore(a, b) ==
    \/ a[1] < b[1]
    \/ a[1] = b[1] /\ a[2] < b[2]
    \/ a[1] = b[1] /\ a[2] = b[2] /\ a[3] < b[3]

\* d.getUTCHours()
UtcHour(ts) == (ts % 86400) \div 3600

SESSIONS ==
    <<[name |-> "Asia", startHour |-> 0, endHour |-> 8],
      [name |-> "Europe", startHour |-> 8, endHour |-> 16],
      [name |-> "US", startHour |-> 16, endHour |-> 24]>>

NoSession == [name |-> "none", startHour |-> 0, endHour |-> 0]

\* a lookup whose ranges leave out their first hour
getSessionForHourAfterStart(hour) ==
    IF \E i \in 1..Len(SESSIONS) : hour > SESSIONS[i].startHour /\ hour < SESSIONS[i].endHour
    THEN SESSIONS[CHOOSE i \in 1..Len(SESSIONS) :
                      hour > SESSIONS[i].startHour /\ hour < SESSIONS[i].endHour]
    ELSE NoSession

\* SESSIONS.find((s) => hour >= s.startHour && hour < s.endHour)
getSessionForHour(hour) ==
    IF \E i \in 1..Len(SESSIONS) : hour >= SESSIONS[i].startHour /\ hour < SESSIONS[i].endHour
    THEN SESSIONS[CHOOSE i \in 1..Len(SESSIONS) :
                      /\ hour >= SESSIONS[i].startHour /\ hour < SESSIONS[i].endHour
                      /\ \A j \in 1..(i - 1) :
                            ~(hour >= SESSIONS[j].startHour /\ hour < SESSIONS[j].endHour)]
    ELSE NoSession

\* the daily entry that replaces the day's total instead of adding to it
DailyAddOverwrite(existing, pnlSol) ==
    [pnl |-> pnlSol, txCount |-> existing.txCount + 1]

\* existing.pnl += pnlSol; existing.txCount += 1
DailyAdd(existing, pnlSol) ==
    [pnl |-> existing.pnl + pnlSol, txCount |-> existing.txCount + 1]

TaEmptyAcc ==
    [dailyMap |-> [x \in {} |-> [pnl |-> 0, txCount |-> 0]],
     hourlyCounts |-> [h \in 0..23 |-> 0],
     sessionMap |-> [s \in {"Asia", "Europe", "US"} |-> [txCount |-> 0, pnls |-> <<>>]]]

\* one iteration of the loop over transactions (lines 119-141)
TaStep(acc, tx) ==
    LET dateStr == toDateString(tx.timestamp)
        hourUtc == UtcHour(tx.timestamp)
        pnlSol == estimateTxPnlSol(tx, WHALE_WALLET)
        existing == IF dateStr \in DOMAIN acc.dailyMap
                    THEN acc.dailyMap[dateStr]
                    ELSE [pnl |-> 0, txCount |-> 0]
        session == getSessionForHour(hourUtc)
    IN  [dailyMap |-> [x \in (DOMAIN acc.dailyMap) \cup {dateStr} |->
                          IF x = dateStr THEN DailyAdd(existing, pnlSol)
                          ELSE acc.dailyMap[x]],
         hourlyCounts |-> [acc.hourlyCounts EXCEPT ![hourUtc] = @ + 1],
         sessionMap |->
             IF session.name = "none"
             THEN acc.sessionMap
             ELSE [acc.sessionMap EXCEPT
                      ![session.name] = [txCount |-> @.txCount + 1,
                                         pnls |-> Append(@.pnls, pnlSol)]]]

RECURSIVE TaLoop(_, _, _)
TaLoop(transactions, i, acc) ==
    IF i > Len(transactions)
    THEN acc
    ELSE TaLoop(transactions, i + 1, TaStep(acc, transactions[i]))

RECURSIVE SortedDaily(_, _)
\* Array.from(dailyMap.entries()).map(...).sort(by date), lines 144-150
SortedDaily(dailyMap, dates) ==
    IF dates = {}
    THEN <<>>
    ELSE LET first == CHOOSE d \in dates : \A e \in dates \ {d} : DateBefore(d, e)
         IN  <<[date |-> first,
                pnl |-> ToFixed6(dailyMap[first].pnl),
                txCount |-> dailyMap[first].txCount]>>
                 \o SortedDaily(dailyMap, dates \ {first})

RECURSIVE SumSeq(_, _)
SumSeq(s, i) == IF i > Len(s) THEN 0 ELSE s[i] + SumSeq(s, i + 1)

\* Math.round of num / den for den > 0, halves away from zero: the digit
\* toFixed keeps
RoundDiv(num, den) ==
    IF num >= 0
    THEN (2 * num + den) \div (2 * den)
    ELSE -((2 * (-num) + den) \div (2 * den))

\* one entry of sessionStats (lines 158-176): avgPnlSol in millionths of a
\* SOL, winRate in tenths of a percent
SessionStatOf(s, data) ==
    LET n == Len(data.pnls)
        wins == Cardinality({ i \in 1..n : data.pnls[i] > 0 })
        totalPnl == SumSeq(data.pnls, 1)
    IN  [session |-> s.name,
         txCount |-> data.txCount,
         totalPnlSol |-> ToFixed6(totalPnl),
         avgPnlSol |-> IF n > 0 THEN RoundDiv(totalPnl, n * LamportsPerMicroSol) ELSE 0,
         winRate |-> IF n > 0 THEN RoundDiv(wins * 1000, n) ELSE 0]

\* the payload built from the aggregates (lines 144-182)
TaPayload(acc) ==
    [status |-> 200,
     dailyPnl |-> SortedDaily(acc.dailyMap, DOMAIN acc.dailyMap),
     hourlyActivity |-> [h \in 0..23 |-> [hour |-> h, count |-> acc.hourlyCounts[h]]],
     sessionStats |-> [i \in 1..Len(SESSIONS) |->
                          SessionStatOf(SESSIONS[i], acc.sessionMap[SESSIONS[i].name])]]

TaNoResponse ==
    [status |-> 0, dailyPnl |-> <<>>,
     hourlyActivity |-> [h \in 0..23 |-> [hour |-> h, count |-> 0]],
     sessionStats |-> <<>>]

\* estimateTxPnlSol throws: without a swap event the loop over the native
\* transfers calls nt.toUserAccount.toLowerCase() and
\* nt.fromUserAccount.toLowerCase(), a TypeError on an absent field
\* (lines 72-80)
TxPnlThrows(tx) ==
    /\ ~tx.swap.present
    /\ \E i \in 1..Len(tx.nativeTransfers) :
        \/ tx.nativeTransfers[i].toUserAccount = MissingAccount
        \/ tx.nativeTransfers[i].fromUserAccount = MissingAccount

\* the catch block: NextResponse.json({ error }, { status: 502 })
TaErrorResponse == [TaNoResponse EXCEPT !.status = 502]

TaIdle ==
    /\ taFetchOk = TRUE
    /\ taTransactions = <<>>
    /\ taPc = "off"
    /\ taResponse = TaNoResponse

\* what getRecentTransactions will give: a batch, or an error
TaInit ==
    /\ taFetchOk \in BOOLEAN
    /\ taTransactions \in TaBatches
    /\ taPc = "call"
    /\ taResponse = TaNoResponse

\* GET (lines 100-191)
TaGet ==
    /\ taPc = "call"
    /\ taResponse' = IF ~taFetchOk
                     THEN TaErrorResponse
                     ELSE IF \E i \in 1..Len(taTransactions) : TxPnlThrows(taTransactions[i])
                     THEN TaErrorResponse
                     ELSE TaPayload(TaLoop(taTransactions, 1, TaEmptyAcc))
    /\ taPc' = "done"
    /\ UNCHANGED <<taFetchOk, taTransactions>>

\* the deltas estimateTxPnlSol computes for the transactions of a batch
TaDeltas == [i \in 1..Len(taTransactions) |-> estimateTxPnlSol(taTransactions[i], WHALE_WALLET)]

\* the positions of the batch whose transaction falls on a date
TaTxOfDay(date) == { i \in 1..Len(taTransactions) : toDateString(taTransactions[i].timestamp) = date }

RECURSIVE SumOver(_, _)
SumOver(f, S) ==
    IF S = {} THEN 0
    ELSE LET x == CHOOSE y \in S : TRUE IN f[x] + SumOver(f, S \ {x})

\* the sum of pnl over the emitted dailyPnl points, in millionths of a SOL
TaDailyPnlSum ==
    SumOver([k \in 1..Len(taResponse.dailyPnl) |-> taResponse.dailyPnl[k].pnl],
            1..Len(taResponse.dailyPnl))

TaAnswered == taPc = "done" /\ taResponse.status = 200

\* C1 as stated: for a non-empty batch the sum of pnl over the dailyPnl
\* points equals the sum of the transactions' deltas.
C1_PnlConservedExactly ==
    (TaAnswered /\ Len(taTransactions) > 0)
        => TaDailyPnlSum * LamportsPerMicroSol = SumOver(TaDeltas, DOMAIN TaDeltas)

\* C1: every transaction is counted on exactly one emitted day, the dates of
\* the points are distinct and ascending, each point's pnl is the sum of the
\* deltas of that day's transactions rounded to 6 decimals, and so the sum
\* of pnl differs from the sum of the deltas by at most 0.0000005 SOL per
\* emitted day.
C1_PnlConservedPerDayRounded ==
    (TaAnswered /\ Len(taTransactions) > 0) =>
        LET daily == taResponse.dailyPnl
            diff == TaDailyPnlSum * LamportsPerMicroSol - SumOver(TaDeltas, DOMAIN TaDeltas)
        IN  /\ \A i \in 1..Len(taTransactions) :
                  Cardinality({ k \in 1..Len(daily) :
                      daily[k].date = toDateString(taTransactions[i].timestamp) }) = 1
            /\ \A k \in 1..Len(daily) :
                  /\ TaTxOfDay(daily[k].date) # {}
                  /\ daily[k].txCount = Cardinality(TaTxOfDay(daily[k].date))
                  /\ daily[k].pnl = ToFixed6(SumOver(TaDeltas, TaTxOfDay(daily[k].date)))
                  /\ k > 1 => DateBefore(daily[k - 1].date, daily[k].date)
            /\ diff <= (LamportsPerMicroSol \div 2) * Len(daily)
            /\ -diff <= (LamportsPerMicroSol \div 2) * Len(daily)

\* two transactions of one day and a day whose total is not a whole number
\* of millionths, so that the emitted sum is not the sum of the deltas
C1_Witness ==
    /\ TaAnswered
    /\ \E k \in 1..Len(taResponse.dailyPnl) : taResponse.dailyPnl[k].txCount = 2
    /\ TaDailyPnlSum * LamportsPerMicroSol # SumOver(TaDeltas, DOMAIN TaDeltas)

\* a record whose native transfers all carry both account fields
TaWellFormed(tx) ==
    \A i \in 1..Len(tx.nativeTransfers) :
        /\ tx.nativeTransfers[i].toUserAccount # MissingAccount
        /\ tx.nativeTransfers[i].fromUserAccount # MissingAccount

\* C26: the time-analysis aggregation never aborts on a malformed record (a
\* native transfer with a missing account field): when the provider answered,
\* the response is the normal one, built from the remaining records, the
\* malformed one contributing nothing.
C26_MalformedRecordSkipped ==
    (taPc = "done" /\ taFetchOk) =>
        /\ taResponse.status = 200
        /\ taResponse = TaPayload(TaLoop(SelectSeq(taTransactions, TaWellFormed), 1,
                                         TaEmptyAcc))

\* the positions of the batch whose UTC hour lies in a session's range
TaTxOfSession(s) ==
    { i \in 1..Len(taTransactions) :
        /\ UtcHour(taTransactions[i].timestamp) >= s.startHour
        /\ UtcHour(taTransactions[i].timestamp) < s.endHour }

\* C29: in an answered request every processed transaction is counted in
\* exactly one of the sessions Asia 00-08, Europe 08-16, US 16-24, the one
\* its UTC hour falls in; the three counts sum to the number of transactions
\* and all three sessions are emitted.
C29_OneSessionPerTransaction ==
    TaAnswered =>
        /\ Len(taResponse.sessionStats) = 3
        /\ \A k \in 1..3 :
            /\ taResponse.sessionStats[k].session = SESSIONS[k].name
            /\ taResponse.sessionStats[k].txCount = Cardinality(TaTxOfSession(SESSIONS[k]))
        /\ \A i \in 1..Len(taTransactions) :
            Cardinality({ k \in 1..3 : i \in TaTxOfSession(SESSIONS[k]) }) = 1
        /\ taResponse.sessionStats[1].txCount + taResponse.sessionStats[2].txCount
              + taResponse.sessionStats[3].txCount = Len(taTransactions)

\* an answered request over two transactions, one of them at 08:00 UTC, the
\* first hour of the Europe session, the other in the Asia session
C29_Witness ==
    /\ TaAnswered
    /\ Len(taTransactions) = 2
    /\ \E i \in 1..2 : UtcHour(taTransactions[i].timestamp) = 8
    /\ taResponse.sessionStats[1].txCount = 1
    /\ taResponse.sessionStats[2].txCount = 1
    /\ taResponse.sessionStats[3].txCount = 0

(***************************************************************************)
(* The swap direction classifiers: classifySwap of the wallet-pnl route    *)
(* and parseSwap of the trading-metrics route.  A description is a string; *)
(* the regular expressions are evaluated on its words (the maximal runs of *)
(* characters other than the space).                                       *)
(***************************************************************************)
STABLES == {<<"S","O","L">>, <<"U","S","D","C">>, <<"U","S","D","T">>, <<"W","S","O","L">>}

USDC_MINT == <<"E","P","j","F","W","d","d","5","A","u","f","q","S","S","q","e","M","2","q","N","1","x","z","y","b","a","p","C","8","G","4","w","E","G","G","k","Z","w","y","T","D","t","1","v">>

Digits == {"0", "1", "2", "3", "4", "5", "6", "7", "8", "9"}

\* [a-zA-Z]
Letter(c) == CharIndex(UpperChars, c) # 0 \/ CharIndex(LowerChars, c) # 0

\* [a-zA-Z0-9]
AlNum(c) == Letter(c) \/ c \in Digits

\* \w
WordChar(c) == AlNum(c) \/ c = "_"

\* [\d,.]
AmountChar(c) == c \in Digits \cup {",", "."}

\* membership in the character class a regular expression names
InClass(c, class) ==
    CASE class = "letter" -> Letter(c)
      [] class = "alnum" -> AlNum(c)
      [] class = "word" -> WordChar(c)

RECURSIVE SplitWords(_, _, _, _)
SplitWords(s, i, cur, acc) ==
    IF i > Len(s)
    THEN IF cur = <<>> THEN acc ELSE Append(acc, cur)
    ELSE IF s[i] = " "
         THEN SplitWords(s, i + 1, <<>>, IF cur = <<>> THEN acc ELSE Append(acc, cur))
         ELSE SplitWords(s, i + 1, Append(cur, s[i]), acc)

Words(s) == SplitWords(s, 1, <<>>, <<>>)

\* the word is one or more amount characters: \s+[\d,.]+\s+
IsAmountWord(w) == w # <<>> /\ \A i \in 1..Len(w) : AmountChar(w[i])

\* the longest prefix of characters of a class: what a greedy group takes
\* after \s+
RunPrefix(w, class) ==
    LET n == CHOOSE k \in 0..Len(w) :
                 /\ \A i \in 1..k : InClass(w[i], class)
                 /\ k < Len(w) => ~InClass(w[k + 1], class)
    IN  SubSeq(w, 1, n)

\* the longest suffix of characters of a class: what a group takes before \s+
RunSuffix(w, class) ==
    LET n == CHOOSE k \in 0..Len(w) :
                 /\ \A i \in (Len(w) - k + 1)..Len(w) : InClass(w[i], class)
                 /\ k < Len(w) => ~InClass(w[Len(w) - k], class)
    IN  SubSeq(w, Len(w) - n + 1, Len(w))

\* (\w+) at the start of a word
WordPrefix(w) == RunPrefix(w, "word")

\* ([a-zA-Z][a-zA-Z0-9]*) at the start of a word
SymbolPrefix(w) == IF w # <<>> /\ Letter(w[1]) THEN RunPrefix(w, "alnum") ELSE <<>>

EndsWith(w, suffix) ==
    /\ Len(suffix) <= Len(w)
    /\ SubSeq(w, Len(w) - Len(suffix) + 1, Len(w)) = suffix

\* the group of the long form at the start of a word
GroupOf(w, group) == IF group = "word" THEN WordPrefix(w) ELSE SymbolPrefix(w)

\* desc.match(/swapped\s+[\d,.]+\s+(G)\s+for\s+[\d,.]+\s+(G)/i), G being
\* (\w+) or ([a-zA-Z][a-zA-Z0-9]*): the two groups of the leftmost match,
\* <<>> when there is none
SwappedMatch(desc, group) ==
    LET w == Words(desc)
        At(i) == /\ i + 5 <= Len(w)
                 /\ EndsWith(toLowerCase(w[i]), <<"s","w","a","p","p","e","d">>)
                 /\ IsAmountWord(w[i + 1])
                 /\ GroupOf(w[i + 2], group) = w[i + 2]
                 /\ toLowerCase(w[i + 3]) = <<"f","o","r">>
                 /\ IsAmountWord(w[i + 4])
                 /\ GroupOf(w[i + 5], group) # <<>>
    IN  IF \E i \in 1..Len(w) : At(i)
        THEN LET i == CHOOSE k \in 1..Len(w) : At(k) /\ \A j \in 1..(k - 1) : ~At(j)
             IN  <<w[i + 2], GroupOf(w[i + 5], group)>>
        ELSE <<>>

\* desc.match(/(C+)\s+for\s+(C+)/i), C being \w or [a-zA-Z]
ForMatch(desc, class) ==
    LET w == Words(desc)
        At(i) == /\ i + 2 <= Len(w)
                 /\ RunSuffix(w[i], class) # <<>>
                 /\ toLowerCase(w[i + 1]) = <<"f","o","r">>
                 /\ RunPrefix(w[i + 2], class) # <<>>
    IN  IF \E i \in 1..Len(w) : At(i)
        THEN LET i == CHOOSE k \in 1..Len(w) : At(k) /\ \A j \in 1..(k - 1) : ~At(j)
             IN  <<RunSuffix(w[i], class), RunPrefix(w[i + 2], class)>>
        ELSE <<>>

\* the entry gate of both classifiers: FALSE where they return null
SwapGate(tx) ==
    \/ tx.type = <<"S","W","A","P">>
    \/ tx.type = <<"s","w","a","p">>
    \/ includes(toLowerCase(tx.description), <<"s","w","a","p">>)
    \/ includes(toLowerCase(tx.description), <<"f","o","r">>)

DirectionOf(outIsStable, inIsStable) ==
    IF outIsStable /\ ~inIsStable THEN "buy"
    ELSE IF ~outIsStable /\ inIsStable THEN "sell"
    ELSE "unknown"

\* tokenOut of strategy 1: "SOL", the mint of the first token input, or ""
SwapTokenOut(swap) ==
    IF swap.nativeInput.present THEN <<"S","O","L">>
    ELSE IF Len(swap.tokenInputs) > 0 THEN swap.tokenInputs[1].mint
    ELSE <<>>

\* tokenIn of strategy 1
SwapTokenIn(swap) ==
    IF swap.nativeOutput.present THEN <<"S","O","L">>
    ELSE IF Len(swap.tokenOutputs) > 0 THEN swap.tokenOutputs[1].mint
    ELSE <<>>

\* Math.abs(nt.amount) < 1_000_000 is skipped as dust
DUST_LAMPORTS == 1000000

Abs(x) == IF x < 0 THEN -x ELSE x

\* a filter that lets every native transfer through
NotDustKeepsAll(nt) == TRUE

NotDust(nt) == ~(Abs(nt.amount) < DUST_LAMPORTS)

\* strategy 3 of both classifiers: the four flags and the SOL delta of the
\* transfers that are not dust
TransferFlags(tx, walletLower) ==
    LET big == SelectSeq(tx.nativeTransfers, NotDust)
    IN  [sentSol |-> \E i \in 1..Len(big) : toLowerCase(big[i].fromUserAccount) = walletLower,
         receivedSol |-> \E i \in 1..Len(big) : toLowerCase(big[i].toUserAccount) = walletLower,
         sentToken |-> \E i \in 1..Len(tx.tokenTransfers) :
                           toLowerCase(tx.tokenTransfers[i].fromUserAccount) = walletLower,
         receivedToken |-> \E i \in 1..Len(tx.tokenTransfers) :
                           toLowerCase(tx.tokenTransfers[i].toUserAccount) = walletLower,
         solDelta |-> NativeDelta(big, 1, walletLower, 0)]

\* the direction strategy 3 returns, "null" when the wallet moved nothing
TransferDirection(f) ==
    IF f.sentSol /\ f.receivedToken THEN "buy"
    ELSE IF f.sentToken /\ f.receivedSol THEN "sell"
    ELSE IF f.sentToken \/ f.receivedToken \/ f.sentSol \/ f.receivedSol THEN "unknown"
    ELSE "null"

\* a result that is null, and the value of a call not made yet
NullResult == [direction |-> "null", solDelta |-> 0, timestamp |-> 0]

Pending == [direction |-> "pending", solDelta |-> 0, timestamp |-> 0]

\* classifySwap: [direction, solDelta in lamports], NullResult for null
classifySwap(tx, walletAddress) ==
    LET walletLower == toLowerCase(walletAddress)
        swap == tx.swap
        swapMatch == SwappedMatch(tx.description, "word")
        flags == TransferFlags(tx, walletLower)
    IN  IF ~SwapGate(tx) THEN NullResult
        ELSE IF swap.present
        THEN [direction |-> DirectionOf(SwapTokenOut(swap) \in STABLES,
                                        SwapTokenIn(swap) \in STABLES),
              solDelta |-> estimateTxPnlSol(tx, walletAddress),
              timestamp |-> 0]
        ELSE IF swapMatch # <<>>
        THEN [direction |-> DirectionOf(toUpperCase(swapMatch[1]) \in STABLES,
                                        toUpperCase(swapMatch[2]) \in STABLES),
              solDelta |-> NativeDelta(tx.nativeTransfers, 1, walletLower, 0),
              timestamp |-> 0]
        ELSE IF TransferDirection(flags) # "null"
        THEN [direction |-> TransferDirection(flags), solDelta |-> flags.solDelta,
              timestamp |-> 0]
        ELSE NullResult

\* parseSwap: [direction, timestamp], NullResult for null
parseSwap(tx) ==
    LET swap == tx.swap
        base == [solDelta |-> 0, timestamp |-> tx.timestamp]
        swapMatch == SwappedMatch(tx.description, "word")
        forMatch == ForMatch(tx.description, "word")
        flags == TransferFlags(tx, toLowerCase(WHALE_WALLET))
        With(direction) == [direction |-> direction, solDelta |-> base.solDelta,
                            timestamp |-> base.timestamp]
    IN  IF ~SwapGate(tx) THEN NullResult
        ELSE IF swap.present /\ SwapTokenOut(swap) # <<>> /\ SwapTokenIn(swap) # <<>>
        THEN With(DirectionOf(SwapTokenOut(swap) \in STABLES, SwapTokenIn(swap) \in STABLES))
        ELSE IF swapMatch # <<>>
        THEN With(DirectionOf(toUpperCase(swapMatch[1]) \in STABLES,
                              toUpperCase(swapMatch[2]) \in STABLES))
        ELSE IF forMatch # <<>> /\ Len(forMatch[1]) <= 10 /\ Len(forMatch[2]) <= 10
        THEN With(DirectionOf(toUpperCase(forMatch[1]) \in STABLES,
                              toUpperCase(forMatch[2]) \in STABLES))
        ELSE IF TransferDirection(flags) # "null"
        THEN With(TransferDirection(flags))
        ELSE NullResult

TokenLeg(mint) == [mint |-> mint]

TokenSwap(nativeInput, nativeOutput, tokenInputs, tokenOutputs) ==
    [present |-> TRUE, nativeInput |-> nativeInput, nativeOutput |-> nativeOutput,
     tokenInputs |-> tokenInputs, tokenOutputs |-> tokenOutputs]

NoTokenSwap ==
    [present |-> FALSE, nativeInput |-> NoLeg, nativeOutput |-> NoLeg,
     tokenInputs |-> <<>>, tokenOutputs |-> <<>>]

TokenTransfer(from, to, mint) ==
    [fromUserAccount |-> from, toUserAccount |-> to, mint |-> mint]

CsTypes == {<<"S","W","A","P">>, <<"T","R","A","N","S","F","E","R">>}

CsDescriptions ==
    { <<>>,
      <<"W"," ","s","w","a","p","p","e","d"," ","2",".","5"," ","S","O","L"," ","f","o","r"," ","1","5","0"," ","U","S","D","C">>,
      <<"W"," ","s","w","a","p","p","e","d"," ","1",",","0","0","0"," ","B","o","n","k"," ","f","o","r"," ","0",".","5"," ","S","O","L",".">>,
      <<"W"," ","t","r","a","n","s","f","e","r","r","e","d"," ","1"," ","S","O","L"," ","t","o"," ","X">>,
      <<"e","x","c","h","a","n","g","e","d"," ","u","s","d","c"," ","f","o","r"," ","j","u","p","-","l","p"," ","t","o","k","e","n","s">>,
      <<"s","w","a","p"," ","o","n"," ","R","a","y","d","i","u","m">> }

CsSwaps ==
    { NoTokenSwap,
      TokenSwap(Leg(2000000), NoLeg, <<>>, <<TokenLeg(MintBonk)>>),
      TokenSwap(NoLeg, Leg(3000000), <<TokenLeg(MintBonk)>>, <<>>),
      TokenSwap(Leg(2000000), NoLeg, <<>>, <<TokenLeg(USDC_MINT)>>),
      TokenSwap(NoLeg, NoLeg, <<TokenLeg(USDC_MINT)>>, <<TokenLeg(MintBonk)>>),
      TokenSwap(NoLeg, NoLeg, <<TokenLeg(MintBonk)>>, <<TokenLeg(MintPump), TokenLeg(USDC_MINT)>>),
      TokenSwap(Leg(2000000), Leg(3000000), <<>>, <<>>),
      TokenSwap(NoLeg, NoLeg, <<>>, <<TokenLeg(MintBonk)>>) }

\* native and token transfers of the transaction
CsTransfers ==
    { [native |-> <<>>, token |-> <<>>],
      [native |-> <<NativeTransfer(WHALE_WALLET, OtherAccount, 2000000)>>,
       token |-> <<TokenTransfer(OtherAccount, WHALE_WALLET, MintBonk)>>],
      [native |-> <<NativeTransfer(OtherAccount, WHALE_WALLET, 3000000),
                    NativeTransfer(WHALE_WALLET, OtherAccount, 5000)>>,
       token |-> <<TokenTransfer(WHALE_WALLET, OtherAccount, MintBonk)>>],
      [native |-> <<NativeTransfer(WHALE_WALLET, OtherAccount, 5000)>>,
       token |-> <<TokenTransfer(<<>>, WHALE_WALLET, MintBonk)>>],
      [native |-> <<NativeTransfer(OtherAccount, OtherAccount, 2000000)>>,
       token |-> <<>>] }

CsTxs ==
    { [type |-> ty, description |-> d, timestamp |-> 3600, swap |-> s,
       nativeTransfers |-> tr.native, tokenTransfers |-> tr.token] :
          ty \in CsTypes, d \in CsDescriptions, s \in CsSwaps, tr \in CsTransfers }

NoCsTx ==
    [type |-> <<>>, description |-> <<>>, timestamp |-> 0, swap |-> NoTokenSwap,
     nativeTransfers |-> <<>>, tokenTransfers |-> <<>>]

CsIdle ==
    /\ csTx = NoCsTx
    /\ csClassified = NullResult
    /\ csParsed = NullResult

CsInit ==
    /\ csTx \in CsTxs
    /\ csClassified = Pending
    /\ csParsed = Pending

\* the wallet-pnl route classifies the transaction
ClassifySwapCall ==
    /\ csClassified = Pending
    /\ csClassified' = classifySwap(csTx, WHALE_WALLET)
    /\ UNCHANGED <<csTx, csParsed>>

\* the trading-metrics route parses the transaction
ParseSwapCall ==
    /\ csParsed = Pending
    /\ csParsed' = parseSwap(csTx)
    /\ UNCHANGED <<csTx, csClassified>>

\* a leg of a structured swap event is in the stable/native set when it is
\* native SOL or a token whose mint is wrapped SOL or a stablecoin
StableLeg(native, tokens) ==
    native.present \/ (Len(tokens) > 0 /\ tokens[1].mint \in {WSOL_MINT, USDC_MINT})

\* C3: on a structured swap event with both legs, both classifiers return buy
\* exactly when the leg the wallet gives is in the stable/native set and the
\* leg it receives is not, sell in the opposite case and unknown otherwise
\* (so native SOL for the USDC mint is unknown).
C3_DirectionByStableSet ==
    LET swap == csTx.swap
        expected == DirectionOf(StableLeg(swap.nativeInput, swap.tokenInputs),
                                StableLeg(swap.nativeOutput, swap.tokenOutputs))
    IN  (/\ SwapGate(csTx)
         /\ swap.present
         /\ SwapTokenOut(swap) # <<>>
         /\ SwapTokenIn(swap) # <<>>)
            => /\ csClassified # Pending => csClassified.direction = expected
               /\ csParsed # Pending => csParsed.direction = expected

\* C12: a record that carries a structured swap event (here with both legs)
\* is never rejected by the entry gate: both classifiers return the result of
\* the structured-event strategy for it, whatever its type tag and
\* description.
C12_SwapEventPassesGate ==
    LET swap == csTx.swap
        structured == DirectionOf(SwapTokenOut(swap) \in STABLES, SwapTokenIn(swap) \in STABLES)
    IN  (swap.present /\ SwapTokenOut(swap) # <<>> /\ SwapTokenIn(swap) # <<>>)
            => /\ csClassified # Pending => csClassified.direction = structured
               /\ csParsed # Pending => csParsed.direction = structured

\* C15: no result of classifySwap pairs direction buy with a positive SOL
\* delta or direction sell with a negative SOL delta.
C15_DirectionMatchesDelta ==
    /\ csClassified.direction = "buy" => csClassified.solDelta <= 0
    /\ csClassified.direction = "sell" => csClassified.solDelta >= 0

\* the wallet is the sender (the receiver) of a native transfer of at least
\* 1,000,000 lamports, of a token transfer
CsSentSol(tx) ==
    \E i \in 1..Len(tx.nativeTransfers) :
        /\ Abs(tx.nativeTransfers[i].amount) >= 1000000
        /\ toLowerCase(tx.nativeTransfers[i].fromUserAccount) = toLowerCase(WHALE_WALLET)

CsReceivedSol(tx) ==
    \E i \in 1..Len(tx.nativeTransfers) :
        /\ Abs(tx.nativeTransfers[i].amount) >= 1000000
        /\ toLowerCase(tx.nativeTransfers[i].toUserAccount) = toLowerCase(WHALE_WALLET)

CsSentToken(tx) ==
    \E i \in 1..Len(tx.tokenTransfers) :
        toLowerCase(tx.tokenTransfers[i].fromUserAccount) = toLowerCase(WHALE_WALLET)

CsReceivedToken(tx) ==
    \E i \in 1..Len(tx.tokenTransfers) :
        toLowerCase(tx.tokenTransfers[i].toUserAccount) = toLowerCase(WHALE_WALLET)

\* the transaction reaches the transfer heuristic of classifySwap, of parseSwap
CsClassifyReachesTransfers ==
    /\ SwapGate(csTx)
    /\ ~csTx.swap.present
    /\ SwappedMatch(csTx.description, "word") = <<>>

CsParseReachesTransfers ==
    /\ SwapGate(csTx)
    /\ ~(csTx.swap.present /\ SwapTokenOut(csTx.swap) # <<>> /\ SwapTokenIn(csTx.swap) # <<>>)
    /\ SwappedMatch(csTx.description, "word") = <<>>
    /\ LET forMatch == ForMatch(csTx.description, "word")
       IN  ~(forMatch # <<>> /\ Len(forMatch[1]) <= 10 /\ Len(forMatch[2]) <= 10)

CsTransferExpected(tx, otherwiseUnknown) ==
    IF CsSentSol(tx) /\ CsReceivedToken(tx) THEN "buy"
    ELSE IF CsSentToken(tx) /\ CsReceivedSol(tx) THEN "sell"
    ELSE IF otherwiseUnknown THEN "unknown"
    ELSE "null"

\* C25 as stated: in the transfer heuristic, with native transfers below
\* 1,000,000 lamports ignored, the result is buy if the wallet sent SOL and
\* received a token, sell if it sent a token and received SOL, and otherwise
\* unknown whenever the transaction has any transfer at all.
C25_UnknownOnAnyTransfer ==
    LET expected == CsTransferExpected(csTx,
                        Len(csTx.nativeTransfers) + Len(csTx.tokenTransfers) > 0)
    IN  /\ (CsClassifyReachesTransfers /\ csClassified # Pending)
            => csClassified.direction = expected
        /\ (CsParseReachesTransfers /\ csParsed # Pending)
            => csParsed.direction = expected

\* C25: in the transfer heuristic, with native transfers below 1,000,000
\* lamports ignored, the result is buy if the wallet sent SOL and received a
\* token, sell if it sent a token and received SOL, otherwise unknown when the
\* wallet itself is the sender or the receiver of a token transfer or of a
\* native transfer that was not ignored, and null (no result) when it is not.
C25_UnknownOnWalletTransfer ==
    LET expected == CsTransferExpected(csTx,
                        \/ CsSentSol(csTx) \/ CsReceivedSol(csTx)
                        \/ CsSentToken(csTx) \/ CsReceivedToken(csTx))
    IN  /\ (CsClassifyReachesTransfers /\ csClassified # Pending)
            => csClassified.direction = expected
        /\ (CsParseReachesTransfers /\ csParsed # Pending)
            => csParsed.direction = expected

\* both classifiers reached the transfer heuristic on a transaction in which
\* the wallet sent only 5,000 lamports and received a token: the native
\* transfer was ignored and the result is unknown, not buy
C25_Witness ==
    /\ CsClassifyReachesTransfers
    /\ CsParseReachesTransfers
    /\ csTx.nativeTransfers = <<NativeTransfer(WHALE_WALLET, OtherAccount, 5000)>>
    /\ CsReceivedToken(csTx)
    /\ csClassified.direction = "unknown"
    /\ csParsed.direction = "unknown"

(***************************************************************************)
(* buildAction of the transactions route with detectPumpDirection and      *)
(* findNonSolTokens.  The symbol map is a function from mints to symbols.   *)
(***************************************************************************)
StrSOL == <<"S","O","L">>

\* symbolMap.get(k) ?? fallback
MapGetOr(map, k, fallback) == IF k \in DOMAIN map THEN map[k] ELSE fallback

NotWsol(mint) == mint # WSOL_MINT

RECURSIVE Dedupe(_, _, _)
\* the elements of a Set built from a sequence, in insertion order
Dedupe(s, i, acc) ==
    IF i > Len(s) THEN acc
    ELSE Dedupe(s, i + 1,
                IF \E j \in 1..Len(acc) : acc[j] = s[i] THEN acc ELSE Append(acc, s[i]))

MintsOf(tokenTransfers) == [i \in 1..Len(tokenTransfers) |-> tokenTransfers[i].mint]

\* findNonSolTokens
findNonSolTokens(tx, symbolMap) ==
    LET nonSolMints == Dedupe(SelectSeq(MintsOf(tx.tokenTransfers), NotWsol), 1, <<>>)
    IN  [i \in 1..Len(nonSolMints) |-> MapGetOr(symbolMap, nonSolMints[i], nonSolMints[i])]

NoPump == [found |-> FALSE, fromSymbol |-> <<>>, toSymbol |-> <<>>]

\* detectPumpDirection looks at every token transfer
PumpSkipsNothing(transfer) == FALSE

\* if (transfer.mint === WSOL_MINT) continue
PumpSkips(transfer) == transfer.mint = WSOL_MINT

RECURSIVE PumpLoop(_, _, _, _)
\* the loop of detectPumpDirection (lines 144-157)
PumpLoop(transfers, i, walletLower, symbolMap) ==
    IF i > Len(transfers) THEN NoPump
    ELSE LET transfer == transfers[i]
             tokenSymbol == MapGetOr(symbolMap, transfer.mint, transfer.mint)
         IN  IF PumpSkips(transfer)
             THEN PumpLoop(transfers, i + 1, walletLower, symbolMap)
             ELSE IF toLowerCase(transfer.toUserAccount) = walletLower
             THEN [found |-> TRUE, fromSymbol |-> StrSOL, toSymbol |-> tokenSymbol]
             ELSE IF toLowerCase(transfer.fromUserAccount) = walletLower
             THEN [found |-> TRUE, fromSymbol |-> tokenSymbol, toSymbol |-> StrSOL]
             ELSE PumpLoop(transfers, i + 1, walletLower, symbolMap)

\* detectPumpDirection: NoPump for null
detectPumpDirection(tx, wallet, symbolMap) ==
    PumpLoop(tx.tokenTransfers, 1, toLowerCase(wallet), symbolMap)

\* the symbol of one leg of the swap event (lines 184-196)
LegSymbol(native, tokens, symbolMap) ==
    IF native.present THEN StrSOL
    ELSE IF Len(tokens) > 0
    THEN IF tokens[1].mint = WSOL_MINT THEN StrSOL
         ELSE MapGetOr(symbolMap, tokens[1].mint, tokens[1].mint)
    ELSE <<>>

IsSolSymbol(s) == s = StrSOL \/ s = <<"w","S","O","L">>

\* strategy 1: <<fromSymbol, toSymbol>> after the structured swap event
SwapEventSymbols(tx, symbolMap, wallet) ==
    IF ~tx.swap.present THEN <<EmptyStr, EmptyStr>>
    ELSE LET swap == tx.swap
             from1 == LegSymbol(swap.nativeInput, swap.tokenInputs, symbolMap)
             to1 == LegSymbol(swap.nativeOutput, swap.tokenOutputs, symbolMap)
             pumpResult == detectPumpDirection(tx, wallet, symbolMap)
             nonSolTokens == findNonSolTokens(tx, symbolMap)
         IN  IF ~(IsSolSymbol(from1) /\ IsSolSymbol(to1)) THEN <<from1, to1>>
             ELSE IF pumpResult.found THEN <<pumpResult.fromSymbol, pumpResult.toSymbol>>
             ELSE IF Len(nonSolTokens) = 0 THEN <<from1, to1>>
             ELSE IF swap.nativeInput.present THEN <<StrSOL, nonSolTokens[1]>>
             ELSE <<nonSolTokens[1], StrSOL>>

\* a symbol of the long form: upper-cased up to 12 characters, else looked
\* up and cut to 8 (lines 236-241)
LongFormSymbol(s, symbolMap) ==
    IF Len(s) <= 12 THEN toUpperCase(s) ELSE MapGetOr(symbolMap, s, SubSeq(s, 1, 8))

INVALID_SYMBOLS == {<<"S","W","A","P","P","E","D">>, <<"U","N","K","N","O","W","N">>, <<"T","O","K","E","N">>, <<"F","O","R">>}

\* strategy 2 with the short form tried before the long form
DescriptionSymbolsShortFirst(tx, symbolMap, pair) ==
    IF pair[1] # <<>> \/ pair[2] # <<>> THEN pair
    ELSE LET longMatch == SwappedMatch(tx.description, "symbol")
             shortMatch == ForMatch(tx.description, "letter")
         IN  IF shortMatch # <<>>
                /\ toUpperCase(shortMatch[1]) \notin INVALID_SYMBOLS
                /\ toUpperCase(shortMatch[2]) \notin INVALID_SYMBOLS
             THEN <<toUpperCase(shortMatch[1]), toUpperCase(shortMatch[2])>>
             ELSE IF longMatch # <<>>
             THEN <<LongFormSymbol(longMatch[1], symbolMap),
                    LongFormSymbol(longMatch[2], symbolMap)>>
             ELSE pair

\* strategy 2: description parsing, entered only when both symbols are empty
DescriptionSymbols(tx, symbolMap, pair) ==
    IF pair[1] # <<>> \/ pair[2] # <<>> THEN pair
    ELSE LET longMatch == SwappedMatch(tx.description, "symbol")
             afterLong == IF longMatch = <<>> THEN pair
                          ELSE <<LongFormSymbol(longMatch[1], symbolMap),
                                 LongFormSymbol(longMatch[2], symbolMap)>>
             shortMatch == ForMatch(tx.description, "letter")
             a == toUpperCase(shortMatch[1])
             b == toUpperCase(shortMatch[2])
         IN  IF afterLong[1] # <<>> THEN afterLong
             ELSE IF shortMatch = <<>> THEN afterLong
             ELSE IF a \notin INVALID_SYMBOLS /\ b \notin INVALID_SYMBOLS
                     /\ Len(a) <= 12 /\ Len(b) <= 12
             THEN <<a, b>>
             ELSE afterLong

\* strategy 3: token transfers, entered only when both symbols are empty
TransferSymbols(tx, symbolMap, pair) ==
    IF pair[1] # <<>> \/ pair[2] # <<>> \/ Len(tx.tokenTransfers) = 0 THEN pair
    ELSE LET uniqueMints == Dedupe(MintsOf(tx.tokenTransfers), 1, <<>>)
             kept == SelectSeq(uniqueMints, NotWsol)
             symbols == [i \in 1..Len(kept) |-> MapGetOr(symbolMap, kept[i], kept[i])]
         IN  IF \E i \in 1..Len(tx.nativeTransfers) :
                    Abs(tx.nativeTransfers[i].amount) > DUST_LAMPORTS
             THEN <<StrSOL, IF Len(symbols) > 0 THEN symbols[1] ELSE <<"?">> >>
             ELSE IF Len(symbols) >= 2 THEN <<symbols[1], symbols[2]>>
             ELSE IF Len(symbols) = 1 THEN <<StrSOL, symbols[1]>>
             ELSE pair

Arrow == <<" ", "-", ">", " ">>

\* the action string (lines 284-289)
ActionOf(fromSymbol, toSymbol) ==
    IF fromSymbol # <<>> /\ toSymbol # <<>> THEN fromSymbol \o Arrow \o toSymbol
    ELSE IF fromSymbol # <<>> THEN fromSymbol \o Arrow \o <<"?">>
    ELSE <<"U","n","k","n","o","w","n"," ","S","w","a","p">>

\* buildAction
buildAction(tx, symbolMap, wallet) ==
    LET s1 == SwapEventSymbols(tx, symbolMap, wallet)
        s2 == DescriptionSymbols(tx, symbolMap, s1)
        s3 == TransferSymbols(tx, symbolMap, s2)
    IN  [action |-> ActionOf(s3[1], s3[2]), fromSymbol |-> s3[1], toSymbol |-> s3[2]]

SymBonk == <<"B","o","n","k">>

\* the symbol maps: every mint resolved, a token whose own symbol is SOL,
\* and no entry at all
BaSymbolMaps ==
    { MapSet(MapSet(MapSet(EmptyMap, WSOL_MINT, StrSOL), MintBonk, SymBonk), MintPump, <<"P","U","M","P">>),
      MapSet(MapSet(MapSet(EmptyMap, WSOL_MINT, StrSOL), MintBonk, StrSOL), MintPump, <<"P","U","M","P">>),
      EmptyMap }

BaDescriptions ==
    { <<>>,
      <<"W"," ","s","w","a","p","p","e","d"," ","2",".","5"," ","S","O","L"," ","f","o","r"," ","1","5","0"," ","U","S","D","C">>,
      <<"W"," ","s","w","a","p","p","e","d"," ","1"," ","D","e","z","X","A","Z","8","z","7","P","n","r","n","R","J","j","z","3","w","X"," ","f","o","r"," ","2",",","0","0","0"," ","j","u","p","!">>,
      <<"S","O","L"," ","f","o","r"," ","t","o","k","e","n">>,
      <<"f","e","e"," ","f","o","r"," ","g","a","s",","," ","s","w","a","p","p","e","d"," ","1"," ","S","O","L"," ","f","o","r"," ","2"," ","j","u","p">>,
      <<"s","o","l","d"," ","j","u","p","9"," ","f","o","r"," ","u","s","d","c">> }

BaSwaps ==
    { NoTokenSwap,
      TokenSwap(Leg(2000000), Leg(1000), <<>>, <<>>),
      TokenSwap(Leg(2000000), NoLeg, <<>>, <<TokenLeg(WSOL_MINT)>>),
      TokenSwap(NoLeg, Leg(3000000), <<TokenLeg(WSOL_MINT)>>, <<>>),
      TokenSwap(NoLeg, NoLeg, <<TokenLeg(WSOL_MINT)>>, <<TokenLeg(WSOL_MINT)>>),
      TokenSwap(Leg(2000000), NoLeg, <<>>, <<TokenLeg(MintBonk)>>),
      TokenSwap(NoLeg, NoLeg, <<TokenLeg(MintPump)>>, <<TokenLeg(MintBonk)>>),
      TokenSwap(NoLeg, Leg(3000000), <<>>, <<>>) }

BaTransfers ==
    { [native |-> <<>>, token |-> <<>>],
      [native |-> <<NativeTransfer(WHALE_WALLET, OtherAccount, 2000000)>>,
       token |-> <<TokenTransfer(OtherAccount, WHALE_WALLET, WSOL_MINT),
                   TokenTransfer(OtherAccount, WHALE_WALLET, MintBonk)>>],
      [native |-> <<NativeTransfer(OtherAccount, WHALE_WALLET, 3000000)>>,
       token |-> <<TokenTransfer(WHALE_WALLET, OtherAccount, MintBonk),
                   TokenTransfer(WHALE_WALLET, OtherAccount, WSOL_MINT)>>],
      [native |-> <<>>,
       token |-> <<TokenTransfer(WHALE_WALLET, OtherAccount, WSOL_MINT),
                   TokenTransfer(OtherAccount, OtherAccount, MintBonk),
                   TokenTransfer(<<>>, OtherAccount, MintBonk)>>],
      [native |-> <<NativeTransfer(WHALE_WALLET, OtherAccount, 5000)>>,
       token |-> <<TokenTransfer(OtherAccount, OtherAccount, MintBonk),
                   TokenTransfer(OtherAccount, WHALE_WALLET, MintPump)>>],
      [native |-> <<NativeTransfer(WHALE_WALLET, OtherAccount, 2000000)>>,
       token |-> <<TokenTransfer(WHALE_WALLET, OtherAccount, WSOL_MINT)>>] }

BaTxs ==
    { [type |-> <<"S","W","A","P">>, description |-> d, timestamp |-> 3600, swap |-> s,
       nativeTransfers |-> tr.native, tokenTransfers |-> tr.token] :
          d \in BaDescriptions, s \in BaSwaps, tr \in BaTransfers }

NoAction == [action |-> <<>>, fromSymbol |-> <<>>, toSymbol |-> <<>>]

BaIdle ==
    /\ baTx = NoCsTx
    /\ baSymbolMap = EmptyMap
    /\ baResult = NoAction

BaInit ==
    /\ baTx \in BaTxs
    /\ baSymbolMap \in BaSymbolMaps
    /\ baResult = NoAction

\* the transactions route transforms the transaction (lines 355-360)
BuildActionCall ==
    /\ baResult = NoAction
    /\ baResult' = buildAction(baTx, baSymbolMap, WHALE_WALLET)
    /\ UNCHANGED <<baTx, baSymbolMap>>

\* the mints of the token transfers other than wrapped SOL
BaNonNativeMints == { baTx.tokenTransfers[i].mint : i \in 1..Len(baTx.tokenTransfers) } \ {WSOL_MINT}

\* a leg of the swap event is SOL: native, or a token leg of the wSOL mint
BaLegIsSol(native, tokens) ==
    native.present \/ (Len(tokens) > 0 /\ tokens[1].mint = WSOL_MINT)

\* the case of C2: a swap event with both legs SOL and exactly one
\* non-native mint among the token transfers, after buildAction returned
BaPumpCase ==
    /\ baResult # NoAction
    /\ baTx.swap.present
    /\ BaLegIsSol(baTx.swap.nativeInput, baTx.swap.tokenInputs)
    /\ BaLegIsSol(baTx.swap.nativeOutput, baTx.swap.tokenOutputs)
    /\ Cardinality(BaNonNativeMints) = 1

\* the symbol buildAction uses for the one non-native mint
BaPumpSymbol ==
    LET mint == CHOOSE m \in BaNonNativeMints : TRUE
    IN  MapGetOr(baSymbolMap, mint, mint)

\* C2 as stated: in that case the mint's symbol is the from side or the to
\* side, and the action is never "SOL -> SOL".
C2_NeverSolToSol ==
    BaPumpCase =>
        /\ baResult.fromSymbol = BaPumpSymbol \/ baResult.toSymbol = BaPumpSymbol
        /\ baResult.action # StrSOL \o Arrow \o StrSOL

\* C2: in that case one side of the swap is the symbol the symbol map gives
\* the mint (the mint address when the map has no entry) and the other side
\* is SOL; the action is "<from> -> <to>", and it is "SOL -> SOL" exactly
\* when the mint's own symbol is "SOL".
C2_MintIsCounterparty ==
    BaPumpCase =>
        /\ \/ baResult.fromSymbol = StrSOL /\ baResult.toSymbol = BaPumpSymbol
           \/ baResult.fromSymbol = BaPumpSymbol /\ baResult.toSymbol = StrSOL
        /\ baResult.action = baResult.fromSymbol \o Arrow \o baResult.toSymbol
        /\ (baResult.action = StrSOL \o Arrow \o StrSOL) <=> (BaPumpSymbol = StrSOL)

\* neither transfer of the mint involves the wallet, wrapped SOL moves too,
\* and the native input decides the direction
C2_Witness ==
    /\ BaPumpCase
    /\ ~detectPumpDirection(baTx, WHALE_WALLET, baSymbolMap).found
    /\ WSOL_MINT \in { baTx.tokenTransfers[i].mint : i \in 1..Len(baTx.tokenTransfers) }
    /\ baResult.action = StrSOL \o Arrow \o SymBonk

BaNoSymbols == <<EmptyStr, EmptyStr>>

\* the short form matched and passed the stoplist and the length test
BaShortFormOk ==
    LET shortMatch == ForMatch(baTx.description, "letter")
    IN  /\ shortMatch # <<>>
        /\ toUpperCase(shortMatch[1]) \notin INVALID_SYMBOLS
        /\ toUpperCase(shortMatch[2]) \notin INVALID_SYMBOLS
        /\ Len(shortMatch[1]) <= 12
        /\ Len(shortMatch[2]) <= 12

\* C13: the symbols buildAction returns are those of the first strategy, in
\* the order swap event, long-form description, short-form description,
\* transfer heuristic, that yields a symbol; no later strategy changes them.
C13_FirstStrategyWins ==
    baResult # NoAction =>
        LET event == SwapEventSymbols(baTx, baSymbolMap, WHALE_WALLET)
            longMatch == SwappedMatch(baTx.description, "symbol")
            shortMatch == ForMatch(baTx.description, "letter")
            symbols == <<baResult.fromSymbol, baResult.toSymbol>>
        IN  /\ event # BaNoSymbols => symbols = event
            /\ (event = BaNoSymbols /\ longMatch # <<>>) =>
                   symbols = <<LongFormSymbol(longMatch[1], baSymbolMap),
                               LongFormSymbol(longMatch[2], baSymbolMap)>>
            /\ (event = BaNoSymbols /\ longMatch = <<>> /\ BaShortFormOk) =>
                   symbols = <<toUpperCase(shortMatch[1]), toUpperCase(shortMatch[2])>>
            /\ (event = BaNoSymbols /\ longMatch = <<>> /\ ~BaShortFormOk) =>
                   symbols = TransferSymbols(baTx, baSymbolMap, BaNoSymbols)

\* no swap event; the long form, the short form and the transfer heuristic
\* would each give different symbols, and the long form's were returned
C13_Witness ==
    /\ baResult # NoAction
    /\ ~baTx.swap.present
    /\ SwappedMatch(baTx.description, "symbol") # <<>>
    /\ BaShortFormOk
    /\ TransferSymbols(baTx, baSymbolMap, BaNoSymbols) # BaNoSymbols
    /\ baResult.action = <<"S","O","L"," ","-",">"," ","J","U","P">>

\* C14: the action is "<from> -> <to>" when both symbols were resolved,
\* "<SYM> -> ?" when only the from side was, "? -> <SYM>" when only the to
\* side was, and "Unknown Swap" only when neither was.
C14_ActionString ==
    baResult # NoAction =>
        LET from == baResult.fromSymbol
            to == baResult.toSymbol
        IN  baResult.action =
                IF from # <<>> /\ to # <<>> THEN from \o Arrow \o to
                ELSE IF from # <<>> THEN from \o Arrow \o <<"?">>
                ELSE IF to # <<>> THEN <<"?">> \o Arrow \o to
                ELSE <<"U","n","k","n","o","w","n"," ","S","w","a","p">>

(***************************************************************************)
(* Wallet selection of the API routes                                      *)
(*                                                                         *)
(* Each route's GET hands one wallet address to its providers.  The        *)
(* request is reduced to its ?wallet= query parameter; wqServed is the     *)
(* list of the requests served so far, each with the wallet analysed.      *)
(***************************************************************************)
\* bound: requests served in one behaviour
MaxRequests == 2

\* [1-9A-HJ-NP-Za-km-z]
Base58Char(c) ==
    \/ c \in Digits \ {"0"}
    \/ CharIndex(UpperChars, c) # 0 /\ c \notin {"I", "O"}
    \/ CharIndex(LowerChars, c) # 0 /\ c # "l"

\* /^[1-9A-HJ-NP-Za-km-z]{32,44}$/.test(wallet)
IsWalletAddress(wallet) ==
    /\ Len(wallet) >= 32
    /\ Len(wallet) <= 44
    /\ \A i \in 1..Len(wallet) : Base58Char(wallet[i])

\* searchParams.get('wallet'): null when the parameter is omitted
NoWalletParam == [present |-> FALSE, value |-> <<>>]

WalletParam(value) == [present |-> TRUE, value |-> value]

getWalletParam(param) ==
    IF param.present /\ param.value # <<>> /\ IsWalletAddress(param.value)
    THEN param.value
    ELSE WHALE_WALLET

Wallet32 == <<"7","x","K","X","t","g","2","C","W","8","7","d","9","7","T","X","J","S","D","p","b","D","5","j","B","k","h","e","T","q","A","8">>
Wallet44 == <<"9","W","z","D","X","w","B","b","m","k","g","8","Z","T","b","N","M","q","U","x","v","Q","R","A","y","r","Z","z","D","s","G","Y","d","L","V","L","9","z","Y","t","A","W","W","M">>
Wallet31 == <<"7","x","K","X","t","g","2","C","W","8","7","d","9","7","T","X","J","S","D","p","b","D","5","j","B","k","h","e","T","q","A">>
Wallet45 == <<"9","W","z","D","X","w","B","b","m","k","g","8","Z","T","b","N","M","q","U","x","v","Q","R","A","y","r","Z","z","D","s","G","Y","d","L","V","L","9","z","Y","t","A","W","W","M","x">>
WalletBadChar == <<"0","x","K","X","t","g","2","C","W","8","7","d","9","7","T","X","J","S","D","p","b","D","5","j","B","k","h","e","T","q","A","8">>

WqParams ==
    {NoWalletParam, WalletParam(<<>>), WalletParam(Wallet32), WalletParam(Wallet44),
     WalletParam(Wallet31), WalletParam(Wallet45), WalletParam(WalletBadChar)}

Served(route, param, wallet) == [route |-> route, param |-> param, wallet |-> wallet]

WqIdle == wqServed = <<>>

WqInit == wqServed = <<>>

\* GET() of wallet-pnl: getWalletPositions(WHALE_WALLET)
WalletPnlRoute ==
    /\ Len(wqServed) < MaxRequests
    /\ \E param \in WqParams :
        wqServed' = Append(wqServed, Served("wallet-pnl", param, WHALE_WALLET))

\* GET() of trading-metrics: getWalletPositions(WHALE_WALLET),
\* getRecentTransactions(WHALE_WALLET, 50)
TradingMetricsRoute ==
    /\ Len(wqServed) < MaxRequests
    /\ \E param \in WqParams :
        wqServed' = Append(wqServed, Served("trading-metrics", param, WHALE_WALLET))

\* GET() of time-analysis: getRecentTransactions(WHALE_WALLET, 50)
TimeAnalysisRoute ==
    /\ Len(wqServed) < MaxRequests
    /\ \E param \in WqParams :
        wqServed' = Append(wqServed, Served("time-analysis", param, WHALE_WALLET))

\* GET() of order-analysis: getRecentTransactions(WHALE_WALLET, 50)
OrderAnalysisRoute ==
    /\ Len(wqServed) < MaxRequests
    /\ \E param \in WqParams :
        wqServed' = Append(wqServed, Served("order-analysis", param, WHALE_WALLET))

\* GET() of transactions: getRecentTransactions(WHALE_WALLET, 20, 'SWAP')
TransactionsRoute ==
    /\ Len(wqServed) < MaxRequests
    /\ \E param \in WqParams :
        wqServed' = Append(wqServed, Served("transactions", param, WHALE_WALLET))

\* GET(request) of volume-fees: getRecentTransactions(getWalletParam(request), 50)
VolumeFeesRoute ==
    /\ Len(wqServed) < MaxRequests
    /\ \E param \in WqParams :
        wqServed' = Append(wqServed, Served("volume-fees", param, getWalletParam(param)))

\* GET(request) of portfolio-history: fetchPortfolioHistory(getWalletParam(request), 30)
PortfolioHistoryRoute ==
    /\ Len(wqServed) < MaxRequests
    /\ \E param \in WqParams :
        wqServed' =
            Append(wqServed, Served("portfolio-history", param, getWalletParam(param)))

\* C17: every route analyses the wallet supplied in the ?wallet= parameter,
\* and the default demo wallet when the parameter is omitted.
C17_RouteAnalysesSuppliedWallet ==
    \A i \in 1..Len(wqServed) :
        LET r == wqServed[i]
        IN  /\ (r.param.present /\ IsWalletAddress(r.param.value)) => r.wallet = r.param.value
            /\ ~r.param.present => r.wallet = WHALE_WALLET

(***************************************************************************)
(* getPortfolioHistory: the simulated portfolio history                    *)
(*                                                                         *)
(* A 32-bit word is the pair <<high half, low half>> of its bit pattern,   *)
(* so that Math.imul, ^, | and >>> are computed on all 32 bits.  The walk  *)
(* itself is a double in the source; here the value is kept in hundredths  *)
(* of a cent and random() is read to its ten leading bits.                 *)
(***************************************************************************)
\* bound: calls of getPortfolioHistory in one behaviour
MaxHistoryCalls == 2

\* bound: half days the clock advances
PhMaxTicks == 2

Half == 65536

RECURSIVE BitXor(_, _, _)
BitXor(a, b, n) ==
    IF n = 0 THEN 0 ELSE ((a + b) % 2) + 2 * BitXor(a \div 2, b \div 2, n - 1)

RECURSIVE BitOr(_, _, _)
BitOr(a, b, n) ==
    IF n = 0 THEN 0
    ELSE (IF a % 2 = 1 \/ b % 2 = 1 THEN 1 ELSE 0) + 2 * BitOr(a \div 2, b \div 2, n - 1)

\* x ^ y
Xor32(x, y) == <<BitXor(x[1], y[1], 16), BitXor(x[2], y[2], 16)>>

\* x | y
Or32(x, y) == <<BitOr(x[1], y[1], 16), BitOr(x[2], y[2], 16)>>

\* (x + y) | 0
Add32(x, y) ==
    LET lo == x[2] + y[2]
    IN  <<(x[1] + y[1] + lo \div Half) % Half, lo % Half>>

\* x >>> n, for 0 < n < 16
Shr32(x, n) ==
    <<x[1] \div (2 ^ n), (x[1] % (2 ^ n)) * (2 ^ (16 - n)) + x[2] \div (2 ^ n)>>

\* the 32-bit product of two 16-bit halves
Mul16(a, b) ==
    LET p0 == (a % 256) * b
        p1 == (a \div 256) * b
        s == p0 + (p1 % 256) * 256
    IN  <<(s \div Half + p1 \div 256) % Half, s % Half>>

\* Math.imul(x, y)
imul(x, y) ==
    LET low == Mul16(x[2], y[2])
        cross == Mul16(x[1], y[2])[2] + Mul16(x[2], y[1])[2]
    IN  <<(low[1] + cross) % Half, low[2]>>

\* 0x6D2B79F5
Increment == <<27947, 31221>>

\* a generator seeded from the clock instead of the fixed seed
seededRandomFromClock(seed) == <<phClock \div Half, phClock % Half>>

\* seededRandom(seed): let state = seed | 0, for a seed in 0 .. 2^31 - 1
seededRandom(seed) == <<seed \div Half, seed % Half>>

\* random(): the new state and the 32 bits that are divided by 4294967296
random(state) ==
    LET s == Add32(state, Increment)
        t1 == imul(Xor32(s, Shr32(s, 15)), Or32(<<0, 1>>, s))
        t2 == Xor32(Add32(t1, imul(Xor32(t1, Shr32(t1, 7)), Or32(<<0, 61>>, t1))), t1)
    IN  [state |-> s, bits |-> Xor32(t2, Shr32(t2, 14))]

\* the seed of line 30
SEED == 42

days == 30

\* hundredths of a cent in one cent
UnitsPerCent == 100

\* (random() - 0.5) * 0.1 in units of 1/10240, from the ten leading bits
Volatility(bits) == bits[1] \div 64 - 512

\* value * (1 + volatility), then Math.max(value, currentNetWorth * 0.3)
WalkStep(value, bits, currentNetWorth) ==
    LET moved == value + RoundDiv(value * Volatility(bits), 10240)
        floor == (currentNetWorth * 3) \div 10
    IN  IF moved >= floor THEN moved ELSE floor

\* one point: the date i days before today (the server's zone being UTC,
\* without daylight saving) and Math.round(value * 100) / 100, in cents
HistoryPoint(today, i, value) ==
    [date |-> toDateString(today - i * 86400), value |-> RoundDiv(value, UnitsPerCent)]

\* the loop of lines 36-56
RECURSIVE HistoryLoop(_, _, _, _, _, _)
HistoryLoop(i, value, state, history, currentNetWorth, today) ==
    IF i < 0 THEN history
    ELSE LET pushed == Append(history, HistoryPoint(today, i, value))
             rnd == random(state)
         IN  IF i > 0
             THEN HistoryLoop(i - 1, WalkStep(value, rnd.bits, currentNetWorth),
                              rnd.state, pushed, currentNetWorth, today)
             ELSE HistoryLoop(i - 1, currentNetWorth, state, pushed, currentNetWorth,
                              today)

getPortfolioHistory(currentNetWorth, today) ==
    IF currentNetWorth <= 0 THEN <<>>
    ELSE HistoryLoop(days - 1, currentNetWorth, seededRandom(SEED), <<>>,
                     currentNetWorth, today)

\* net worths in hundredths of a cent: -1.00, 0, 0.01, 1.2345, 100.00, 150.50
PhNetWorths == {-10000, 0, 100, 12345, 1000000, 1505000}

\* 2025-11-06T00:00:00Z and 2025-11-06T18:00:00Z
PhStartInstants == {1762387200, 1762452000}

PhIdle == phClock = 0 /\ phCalls = <<>>

PhInit == phClock \in PhStartInstants /\ phCalls = <<>>

\* a caller (page.tsx, getJournalStats) asks for the history of a net worth;
\* today = new Date()
GetPortfolioHistoryCall ==
    /\ Len(phCalls) < MaxHistoryCalls
    /\ \E netWorth \in PhNetWorths :
        phCalls' = Append(phCalls, [netWorth |-> netWorth, today |-> phClock,
                                    history |-> getPortfolioHistory(netWorth, phClock)])
    /\ UNCHANGED phClock

\* twelve hours pass
PhTick ==
    /\ phClock < 1762452000 + PhMaxTicks * 43200
    /\ phClock' = phClock + 43200
    /\ UNCHANGED phCalls

PhValues(history) == [i \in 1..Len(history) |-> history[i].value]

C19_LastPointIsNetWorth ==
    \A i \in 1..Len(phCalls) :
        phCalls[i].netWorth > 0 =>
            LET last == phCalls[i].history[Len(phCalls[i].history)]
            IN  /\ last.date = toDateString(phCalls[i].today)
                /\ last.value = RoundDiv(phCalls[i].netWorth, UnitsPerCent)

(***************************************************************************)
(* The three fetches of the pipeline and the statuses they receive         *)
(*                                                                         *)
(* loadJupiterList, resolveViaHeliusDas and getSolPriceUsd each await one  *)
(* fetch; what each does with the HTTP status of the answer is followed    *)
(* here, the bodies being left to the models above.  xcStatuses lists the  *)
(* statuses the running call has received, one per request it issued.      *)
(***************************************************************************)
\* bound: calls completed in one behaviour
MaxExternalCalls == 2

XcOps == {"loadJupiterList", "resolveViaHeliusDas", "getSolPriceUsd"}

\* statuses an upstream may answer with: OK, rate limited, server error
XcStatusCodes == {200, 429, 500}

\* res.ok of a fetch answered with this status
StatusOk(status) == status >= 200 /\ status <= 299

XcIdle ==
    /\ xcOp = "none"
    /\ xcPc = "idle"
    /\ xcStatuses = <<>>
    /\ xcOutcome = "none"
    /\ xcDone = <<>>

XcInit ==
    /\ xcOp = "none"
    /\ xcPc = "idle"
    /\ xcStatuses = <<>>
    /\ xcOutcome = "none"
    /\ xcDone = <<>>

\* the call reaches its await fetch(...)
XcFetchIssued ==
    /\ xcPc = "idle"
    /\ Len(xcDone) < MaxExternalCalls
    /\ \E op \in XcOps : xcOp' = op
    /\ xcPc' = "fetching"
    /\ xcStatuses' = <<>>
    /\ xcOutcome' = "none"
    /\ UNCHANGED xcDone

XcFinish(status, outcome) ==
    /\ xcStatuses' = Append(xcStatuses, status)
    /\ xcOutcome' = outcome
    /\ xcPc' = "idle"
    /\ xcDone' = Append(xcDone, [op |-> xcOp, statuses |-> Append(xcStatuses, status),
                                 outcome |-> outcome])
    /\ UNCHANGED xcOp

\* loadJupiterList after its fetch: a status that is not OK throws into the
\* catch block, which returns jupiterCache ?? new Map()
JupiterListResponds ==
    /\ xcPc = "fetching"
    /\ xcOp = "loadJupiterList"
    /\ \E status \in XcStatusCodes :
        XcFinish(status, IF StatusOk(status) THEN "list" ELSE "cacheOrEmpty")

\* resolveViaHeliusDas after its fetch: a status that is not OK returns the
\* entries found in dasCache
HeliusDasResponds ==
    /\ xcPc = "fetching"
    /\ xcOp = "resolveViaHeliusDas"
    /\ \E status \in XcStatusCodes :
        XcFinish(status, IF StatusOk(status) THEN "assets" ELSE "cachedOnly")

\* getSolPriceUsd after its fetch: a status that is not OK falls through to
\* return cachedSolPrice ?? 170
SolPriceResponds ==
    /\ xcPc = "fetching"
    /\ xcOp = "getSolPriceUsd"
    /\ \E status \in XcStatusCodes :
        XcFinish(status, IF StatusOk(status) THEN "price" ELSE "cacheOrDefault")

\* C21: each of the three external calls is retried on rate limiting: a call
\* that was answered 429 issues another request, and gives up only when its
\* requests have reached the attempt ceiling (MAX_RETRIES retries after the
\* first attempt).
C21_RetriedOnRateLimit ==
    \A i \in 1..Len(xcDone) :
        LET st == xcDone[i].statuses
        IN  st[Len(st)] = 429 => Len(st) = MAX_RETRIES + 1

(***************************************************************************)
(* GET of the volume-fees route: the fee composition                       *)
(*                                                                         *)
(* A transaction is reduced to its fee (lamports) and its source tag.      *)
(* value is held in millionths of a SOL and percentage in hundredths of a  *)
(* percent, the digits toFixed(6) and toFixed(2) keep.                      *)
(***************************************************************************)
\* bound: transactions in one batch
MaxFeeTxs == 8

MAX_SLICES == 6

\* the source tags of the batch, '' being a record without a source
VfSourceNames ==
    <<<<"J","U","P","I","T","E","R">>, <<"R","A","Y","D","I","U","M">>, <<>>, <<"O","R","C","A">>, <<"P","U","M","P","_","F","U","N">>, <<"S","Y","S","T","E","M","_","P","R","O","G","R","A","M">>, <<"M","E","T","E","O","R","A">>>>

\* fees in lamports
VfFees == {0, 400, 5000}

\* the k-th transaction of a batch carries the k-th tag, the tags repeating
\* after the seventh
VfTx(k, fee) == [fee |-> fee, source |-> VfSourceNames[((k - 1) % 7) + 1]]

VfBatches ==
    UNION { { [k \in 1..n |-> VfTx(k, fees[k])] : fees \in [1..n -> VfFees] } :
            n \in 0..MaxFeeTxs }

\* tx.source || 'Unknown'
SourceOf(tx) == IF tx.source = <<>> THEN <<"U","n","k","n","o","w","n">> ELSE tx.source

RECURSIVE FeeBySource(_, _, _)
\* the loop of lines 33-40: feeBySource as the list of its entries in
\* insertion order
FeeBySource(transactions, i, entries) ==
    IF i > Len(transactions)
    THEN entries
    ELSE LET source == SourceOf(transactions[i])
             txFee == transactions[i].fee
             at == { k \in 1..Len(entries) : entries[k].name = source }
         IN  FeeBySource(transactions, i + 1,
                 IF at = {}
                 THEN Append(entries, [name |-> source, lamports |-> txFee])
                 ELSE [k \in 1..Len(entries) |->
                          IF k \in at
                          THEN [name |-> source, lamports |-> entries[k].lamports + txFee]
                          ELSE entries[k]])

RECURSIVE SortByFeeDesc(_)
\* .sort(([, a], [, b]) => b - a): descending, entries of equal fee keeping
\* their order
SortByFeeDesc(entries) ==
    IF entries = <<>>
    THEN <<>>
    ELSE LET best == CHOOSE k \in 1..Len(entries) :
                        /\ \A j \in 1..Len(entries) : entries[j].lamports <= entries[k].lamports
                        /\ \A j \in 1..(k - 1) : entries[j].lamports < entries[k].lamports
             others == [j \in 1..(Len(entries) - 1) |->
                           IF j < best THEN entries[j] ELSE entries[j + 1]]
         IN  <<entries[best]>> \o SortByFeeDesc(others)

\* the item of one source (lines 81-87)
FeeItem(entry, totalFeeLamports) ==
    [name |-> entry.name,
     value |-> ToFixed6(entry.lamports),
     percentage |-> IF totalFeeLamports > 0
                    THEN RoundDiv(entry.lamports * 10000, totalFeeLamports)
                    ELSE 0]

RECURSIVE SumValues(_, _)
SumValues(items, i) ==
    IF i > Len(items) THEN 0 ELSE items[i].value + SumValues(items, i + 1)

RECURSIVE SumPercentages(_, _)
SumPercentages(items, i) ==
    IF i > Len(items) THEN 0 ELSE items[i].percentage + SumPercentages(items, i + 1)

\* a consolidation that keeps MAX_SLICES entries next to "Other"
ConsolidateKeepsSix(feeComposition) ==
    IF Len(feeComposition) > MAX_SLICES
    THEN LET top == SubSeq(feeComposition, 1, MAX_SLICES)
             rest == SubSeq(feeComposition, MAX_SLICES + 1, Len(feeComposition))
         IN  Append(top, [name |-> <<"O","t","h","e","r">>, value |-> SumValues(rest, 1),
                          percentage |-> SumPercentages(rest, 1)])
    ELSE feeComposition

\* lines 90-105
Consolidate(feeComposition) ==
    IF Len(feeComposition) > MAX_SLICES
    THEN LET top == SubSeq(feeComposition, 1, MAX_SLICES - 1)
             rest == SubSeq(feeComposition, MAX_SLICES, Len(feeComposition))
         IN  Append(top, [name |-> <<"O","t","h","e","r">>, value |-> SumValues(rest, 1),
                          percentage |-> SumPercentages(rest, 1)])
    ELSE feeComposition

RECURSIVE TotalFee(_, _)
\* totalFeeLamports
TotalFee(transactions, i) ==
    IF i > Len(transactions) THEN 0
    ELSE transactions[i].fee + TotalFee(transactions, i + 1)

\* the feeComposition of the response (lines 79-105)
FeeComposition(transactions) ==
    LET total == TotalFee(transactions, 1)
        sorted == SortByFeeDesc(FeeBySource(transactions, 1, <<>>))
    IN  Consolidate([k \in 1..Len(sorted) |-> FeeItem(sorted[k], total)])

VfNoResponse == [totalFeeLamports |-> 0, feeComposition |-> <<>>]

VfIdle ==
    /\ vfTransactions = <<>>
    /\ vfPc = "off"
    /\ vfResponse = VfNoResponse

\* what getRecentTransactions gives
VfInit ==
    /\ vfTransactions \in VfBatches
    /\ vfPc = "call"
    /\ vfResponse = VfNoResponse

\* GET (lines 21-115), the fee part of its response
VolumeFeesGet ==
    /\ vfPc = "call"
    /\ vfResponse' = [totalFeeLamports |-> TotalFee(vfTransactions, 1),
                      feeComposition |-> FeeComposition(vfTransactions)]
    /\ vfPc' = "done"
    /\ UNCHANGED vfTransactions

\* the distinct source tags of the batch, and the fees paid under a tag
VfSources == { SourceOf(vfTransactions[i]) : i \in 1..Len(vfTransactions) }

VfFeeOf(source) ==
    LET idx == { i \in 1..Len(vfTransactions) : SourceOf(vfTransactions[i]) = source }
    IN  SumOver([i \in 1..Len(vfTransactions) |-> vfTransactions[i].fee], idx)

\* C27 as stated: at most 6 entries, the smallest sources collapsed into
\* "Other", the values of the entries add up to the total fees and the
\* percentages sum to 100.
C27_SumsAreExact ==
    vfPc = "done" =>
        LET items == vfResponse.feeComposition
        IN  /\ Len(items) <= MAX_SLICES
            /\ SumValues(items, 1) * LamportsPerMicroSol = vfResponse.totalFeeLamports
            /\ SumPercentages(items, 1) = 10000

\* C27: the fees are grouped by source tag; up to 6 sources each get an
\* entry, more than 6 leave the 5 largest and one "Other" entry holding the
\* sums of the rest, so there are never more than 6 entries; each entry's
\* value is its fee rounded to 6 decimals and its percentage its share
\* rounded to 2 decimals, so the values differ from the total fees by at most
\* 0.0000005 SOL per source and the percentages from 100 by at most 0.005 per
\* source; with no fees at all every percentage is 0.
C27_SumsUpToRounding ==
    vfPc = "done" =>
        LET items == vfResponse.feeComposition
            total == vfResponse.totalFeeLamports
            n == Cardinality(VfSources)
            kept == IF n > MAX_SLICES THEN MAX_SLICES - 1 ELSE n
            keptNames == { items[k].name : k \in 1..kept }
            diff == SumValues(items, 1) * LamportsPerMicroSol - total
        IN  /\ Len(items) = (IF n > MAX_SLICES THEN MAX_SLICES ELSE n)
            /\ Cardinality(keptNames) = kept
            /\ keptNames \subseteq VfSources
            /\ \A k \in 1..kept :
                /\ items[k].value = ToFixed6(VfFeeOf(items[k].name))
                /\ k > 1 => VfFeeOf(items[k - 1].name) >= VfFeeOf(items[k].name)
                /\ \A s \in VfSources \ keptNames : VfFeeOf(s) <= VfFeeOf(items[k].name)
            /\ n > MAX_SLICES => items[MAX_SLICES].name = <<"O","t","h","e","r">>
            /\ 2 * diff <= LamportsPerMicroSol * n
            /\ -2 * diff <= LamportsPerMicroSol * n
            /\ total > 0 => /\ 2 * (SumPercentages(items, 1) - 10000) <= n
                            /\ 2 * (10000 - SumPercentages(items, 1)) <= n
            /\ total = 0 => \A k \in 1..Len(items) : items[k].percentage = 0

\* seven sources were collapsed to six entries whose percentages do not sum
\* to 100 and whose values do not add up to the total fees
C27_Witness ==
    /\ vfPc = "done"
    /\ Cardinality(VfSources) = 7
    /\ Len(vfResponse.feeComposition) = 6
    /\ vfResponse.feeComposition[6].name = <<"O","t","h","e","r">>
    /\ vfResponse.totalFeeLamports > 0
    /\ SumPercentages(vfResponse.feeComposition, 1) # 10000
    /\ SumValues(vfResponse.feeComposition, 1) * LamportsPerMicroSol
           # vfResponse.totalFeeLamports

(***************************************************************************)
(* estimateValueSol of the transactions route                              *)
(*                                                                         *)
(* Amounts and the result are lamports; the division by LAMPORTS_PER_SOL   *)
(* is the same scaling on every path.                                      *)
(***************************************************************************)
EvToken(mint, amount) == [mint |-> mint, amount |-> amount]

\* swap.nativeInput, swap.nativeOutput
EvNativeLegs == {NoLeg, Leg(0), Leg(-1000000), Leg(2000000), Leg(5000000)}

\* swap.tokenInputs, swap.tokenOutputs
EvTokenLists ==
    { <<>>,
      <<EvToken(MintBonk, 7000000)>>,
      <<EvToken(WSOL_MINT, 3000000)>>,
      <<EvToken(MintBonk, 9000000), EvToken(WSOL_MINT, 4000000)>>,
      <<EvToken(WSOL_MINT, 1000000), EvToken(WSOL_MINT, 6000000)>>,
      <<EvToken(WSOL_MINT, 0), EvToken(WSOL_MINT, 6000000)>> }

EvNativeTransfers ==
    { <<>>,
      <<NativeTransfer(WHALE_WALLET, OtherAccount, 999999)>>,
      <<NativeTransfer(WHALE_WALLET, OtherAccount, 1000000)>>,
      <<NativeTransfer(OtherAccount, WHALE_WALLET, -8000000),
        NativeTransfer(WHALE_WALLET, OtherAccount, 2500000)>>,
      <<NativeTransfer(WHALE_WALLET, OtherAccount, 5000),
        NativeTransfer(WHALE_WALLET, OtherAccount, 1500000),
        NativeTransfer(OtherAccount, WHALE_WALLET, 1200000)>> }

EvSwaps ==
    {NoTokenSwap} \cup
    { TokenSwap(ni, no, ti, to) :
        ni \in EvNativeLegs, no \in EvNativeLegs, ti \in EvTokenLists, to \in EvTokenLists }

EvTxs == { [swap |-> s, nativeTransfers |-> nts] : s \in EvSwaps, nts \in EvNativeTransfers }

Max2(a, b) == IF a >= b THEN a ELSE b

\* swap.nativeInput ? (Number(swap.nativeInput.amount) || 0) : 0
LegAmount(leg) == IF leg.present THEN leg.amount ELSE 0

RECURSIVE LastWsolAmount(_, _)
\* the amount of the last wrapped-SOL entry of a token list
LastWsolAmount(tokens, i) ==
    IF i > Len(tokens) THEN 0
    ELSE LET later == LastWsolAmount(tokens, i + 1)
         IN  IF later # 0 \/ tokens[i].mint # WSOL_MINT THEN later ELSE tokens[i].amount

RECURSIVE WsolAmount(_, _)
\* tokens?.find((t) => t.mint === WSOL_MINT), then its amount or 0
WsolAmount(tokens, i) ==
    IF i > Len(tokens) THEN 0
    ELSE IF tokens[i].mint = WSOL_MINT THEN tokens[i].amount
    ELSE WsolAmount(tokens, i + 1)

RECURSIVE MaxTransferAmount(_, _, _)
\* the loop over tx.nativeTransfers (lines 322-330)
MaxTransferAmount(transfers, i, maxAmount) ==
    IF i > Len(transfers) THEN maxAmount
    ELSE IF Abs(transfers[i].amount) < DUST_LAMPORTS
    THEN MaxTransferAmount(transfers, i + 1, maxAmount)
    ELSE MaxTransferAmount(transfers, i + 1, Max2(maxAmount, Abs(transfers[i].amount)))

estimateValueSol(tx) ==
    LET swap == tx.swap
        nativeIn == LegAmount(swap.nativeInput)
        nativeOut == LegAmount(swap.nativeOutput)
        solFromTokens == Max2(WsolAmount(swap.tokenInputs, 1), WsolAmount(swap.tokenOutputs, 1))
    IN  IF swap.present /\ (nativeIn > 0 \/ nativeOut > 0)
        THEN Max2(nativeIn, nativeOut)
        ELSE IF swap.present /\ solFromTokens > 0
        THEN solFromTokens
        ELSE MaxTransferAmount(tx.nativeTransfers, 1, 0)

EvNoTx == [swap |-> NoTokenSwap, nativeTransfers |-> <<>>]

EvIdle ==
    /\ evTx = EvNoTx
    /\ evPc = "off"
    /\ evResult = 0

EvInit ==
    /\ evTx \in EvTxs
    /\ evPc = "call"
    /\ evResult = 0

\* transformTransaction computes valueSol (the call of estimateValueSol)
EstimateValueSolCall ==
    /\ evPc = "call"
    /\ evResult' = estimateValueSol(evTx)
    /\ evPc' = "done"
    /\ UNCHANGED evTx

\* the positive native amounts of the swap event, all its wrapped-SOL token
\* amounts, the first wrapped-SOL amount of each token list, and the amounts
\* of the native transfers that are not dust
EvNativeAmounts ==
    IF evTx.swap.present
    THEN {LegAmount(evTx.swap.nativeInput), LegAmount(evTx.swap.nativeOutput)}
    ELSE {}

EvWsolOf(tokens) == { i \in 1..Len(tokens) : tokens[i].mint = WSOL_MINT }

EvAllWsolAmounts ==
    IF evTx.swap.present
    THEN { evTx.swap.tokenInputs[i].amount : i \in EvWsolOf(evTx.swap.tokenInputs) } \cup
         { evTx.swap.tokenOutputs[i].amount : i \in EvWsolOf(evTx.swap.tokenOutputs) }
    ELSE {}

EvFirstOf(tokens) ==
    { tokens[i].amount : i \in { k \in EvWsolOf(tokens) : \A j \in EvWsolOf(tokens) : k <= j } }

EvFirstWsolAmounts ==
    IF evTx.swap.present
    THEN EvFirstOf(evTx.swap.tokenInputs) \cup EvFirstOf(evTx.swap.tokenOutputs)
    ELSE {}

EvTransferAmounts ==
    { Abs(evTx.nativeTransfers[i].amount) :
        i \in { k \in 1..Len(evTx.nativeTransfers) :
                  Abs(evTx.nativeTransfers[k].amount) >= DUST_LAMPORTS } }

\* the largest element of S that is positive, 0 without one
EvLargest(S) == IF \E x \in S : x > 0 THEN CHOOSE x \in S : \A y \in S : y <= x ELSE 0

\* the result the three fallbacks give when the second one ranges over wsol
EvExpected(wsol) ==
    IF EvLargest(EvNativeAmounts) > 0 THEN EvLargest(EvNativeAmounts)
    ELSE IF EvLargest(wsol) > 0 THEN EvLargest(wsol)
    ELSE EvLargest(EvTransferAmounts)

\* C28 as stated: the second fallback is the larger wrapped-SOL amount among
\* all token inputs and outputs of the swap event.
C28_LargestWsolAmount ==
    evPc = "done" => evResult = EvExpected(EvAllWsolAmounts) /\ evResult >= 0

\* C28: estimateValueSol returns the larger native amount of the swap event
\* when either is positive; otherwise the larger of the first wrapped-SOL
\* entry of the token inputs and the first wrapped-SOL entry of the token
\* outputs when positive; otherwise the largest absolute amount among the
\* native transfers of at least 1,000,000 lamports; and 0 when none of these
\* exists. The result is never negative.
C28_FirstWsolAmount ==
    evPc = "done" => evResult = EvExpected(EvFirstWsolAmounts) /\ evResult >= 0

\* a swap event without a positive native amount whose token inputs hold two
\* wrapped-SOL entries: the first one, the smaller, was returned
C28_Witness ==
    /\ evPc = "done"
    /\ evTx.swap.present
    /\ EvLargest(EvNativeAmounts) = 0
    /\ Cardinality(EvWsolOf(evTx.swap.tokenInputs)) = 2
    /\ evTx.swap.tokenOutputs = <<>>
    /\ evResult = evTx.swap.tokenInputs[1].amount
    /\ evResult > 0
    /\ evResult < EvLargest(EvAllWsolAmounts)

(***************************************************************************)
(* The dashboard page: the effects that load the widgets of a wallet       *)
(*                                                                         *)
(* A request in flight records the widget it loads, the wallet it was      *)
(* issued for, the render that issued it and, for the time-analysis        *)
(* widget, the isMounted flag of its effect. hpShown gives for each widget *)
(* the wallet whose data the widget shows, <<>> before the first response. *)
(***************************************************************************)
\* bound: changes of the selected wallet
MaxWalletChanges == 2

\* walletAddress: the connected wallet's address, or WHALE_WALLET
HpWallets == {WHALE_WALLET, Wallet32, Wallet44}

HpWidgets == {"portfolio", "transactions", "timeAnalysis"}

HpRequest(widget, wallet, render) ==
    [widget |-> widget, wallet |-> wallet, render |-> render, isMounted |-> TRUE]

\* the requests the effects of a render issue for the wallet
HpIssued(wallet, render) == { HpRequest(w, wallet, render) : w \in HpWidgets }

HpIdle ==
    /\ hpWallet = <<>>
    /\ hpChanges = 0
    /\ hpInFlight = {}
    /\ hpShown = [w \in HpWidgets |-> <<>>]

\* the first render: no wallet is connected and the three effects have run
HpInit ==
    /\ hpWallet = WHALE_WALLET
    /\ hpChanges = 0
    /\ hpInFlight = HpIssued(WHALE_WALLET, 0)
    /\ hpShown = [w \in HpWidgets |-> <<>>]

\* walletAddress changes: the cleanup of the time-analysis effect clears the
\* isMounted flag of its earlier run, the effects of page.tsx have no
\* cleanup, and the three effects run again for the new wallet
WalletChanges(wallet) ==
    /\ hpChanges < MaxWalletChanges
    /\ wallet # hpWallet
    /\ hpWallet' = wallet
    /\ hpChanges' = hpChanges + 1
    /\ hpInFlight' =
          { IF r.widget = "timeAnalysis" THEN [r EXCEPT !.isMounted = FALSE] ELSE r :
              r \in hpInFlight }
          \cup HpIssued(wallet, hpChanges + 1)
    /\ UNCHANGED hpShown

\* fetchData settles (page.tsx 183-221): setNetWorth and setHistoryData
PortfolioSettles(r) ==
    /\ r \in hpInFlight
    /\ r.widget = "portfolio"
    /\ hpShown' = [hpShown EXCEPT !["portfolio"] = r.wallet]
    /\ hpInFlight' = hpInFlight \ {r}
    /\ UNCHANGED <<hpWallet, hpChanges>>

\* fetchTransactions settles (page.tsx 228-245): setTransactions
TransactionsSettles(r) ==
    /\ r \in hpInFlight
    /\ r.widget = "transactions"
    /\ hpShown' = [hpShown EXCEPT !["transactions"] = r.wallet]
    /\ hpInFlight' = hpInFlight \ {r}
    /\ UNCHANGED <<hpWallet, hpChanges>>

\* fetchData of the time-analysis widget settles (time-analysis.tsx 73-97):
\* setData only if (isMounted)
TimeAnalysisSettles(r) ==
    /\ r \in hpInFlight
    /\ r.widget = "timeAnalysis"
    /\ hpShown' = IF r.isMounted THEN [hpShown EXCEPT !["timeAnalysis"] = r.wallet]
                  ELSE hpShown
    /\ hpInFlight' = hpInFlight \ {r}
    /\ UNCHANGED <<hpWallet, hpChanges>>

\* C30: after the selected wallet changed and every request in flight has
\* completed, the transactions, portfolio history and analysis widgets show
\* the data of the currently selected wallet.
C30_WidgetsShowSelectedWallet ==
    (hpChanges > 0 /\ hpInFlight = {}) => \A w \in HpWidgets : hpShown[w] = hpWallet

(***************************************************************************)
(* Specifications                                                          *)
(***************************************************************************)
NotDd == <<ocVars, hxVars, spVars, rsVars, taVars, csVars, baVars, wqVars, phVars, xcVars, vfVars, evVars, hpVars>>

NotOc == <<ddVars, hxVars, spVars, rsVars, taVars, csVars, baVars, wqVars, phVars, xcVars, vfVars, evVars, hpVars>>

NotHx == <<ddVars, ocVars, spVars, rsVars, taVars, csVars, baVars, wqVars, phVars, xcVars, vfVars, evVars, hpVars>>

NotSp == <<ddVars, ocVars, hxVars, rsVars, taVars, csVars, baVars, wqVars, phVars, xcVars, vfVars, evVars, hpVars>>

NotRs == <<ddVars, ocVars, hxVars, spVars, taVars, csVars, baVars, wqVars, phVars, xcVars, vfVars, evVars, hpVars>>

NotCs == <<ddVars, ocVars, hxVars, spVars, rsVars, taVars, baVars, wqVars, phVars, xcVars, vfVars, evVars, hpVars>>

NotBa == <<ddVars, ocVars, hxVars, spVars, rsVars, taVars, csVars, wqVars, phVars, xcVars, vfVars, evVars, hpVars>>

NotTa == <<ddVars, ocVars, hxVars, spVars, rsVars, csVars, baVars, wqVars, phVars, xcVars, vfVars, evVars, hpVars>>

DdNext == CalcMaxDrawdown /\ UNCHANGED NotDd

InitDrawdown == DdInit /\ OcIdle /\ HxIdle /\ SpIdle /\ RsIdle /\ TaIdle /\ CsIdle /\ BaIdle /\ WqIdle /\ PhIdle /\ XcIdle /\ VfIdle /\ EvIdle /\ HpIdle

SpecDrawdown == InitDrawdown /\ [][DdNext]_vars

OcNext == ClassifyOrder /\ UNCHANGED NotOc

InitOrder == OcInit /\ DdIdle /\ HxIdle /\ SpIdle /\ RsIdle /\ TaIdle /\ CsIdle /\ BaIdle /\ WqIdle /\ PhIdle /\ XcIdle /\ VfIdle /\ EvIdle /\ HpIdle

SpecOrder == InitOrder /\ [][OcNext]_vars

HxNext ==
    \/ HxStart /\ UNCHANGED NotHx
    \/ HxFetchResponds /\ UNCHANGED NotHx
    \/ HxFetchThrows /\ UNCHANGED NotHx
    \/ HxBackoffElapsed /\ UNCHANGED NotHx

InitHelius == HxInit /\ DdIdle /\ OcIdle /\ SpIdle /\ RsIdle /\ TaIdle /\ CsIdle /\ BaIdle /\ WqIdle /\ PhIdle /\ XcIdle /\ VfIdle /\ EvIdle /\ HpIdle

SpecHelius == InitHelius /\ [][HxNext]_vars

SpNext ==
    \/ \E c \in PriceCallers : SpCall(c) /\ UNCHANGED NotSp
    \/ \E c \in PriceCallers : SpFeedAnswers(c) /\ UNCHANGED NotSp
    \/ \E c \in PriceCallers : SpHandleFetch(c) /\ UNCHANGED NotSp
    \/ \E c \in PriceCallers : SpBodyArrives(c) /\ UNCHANGED NotSp
    \/ \E c \in PriceCallers : SpHandleJson(c) /\ UNCHANGED NotSp
    \/ SpTick /\ UNCHANGED NotSp

InitPrice == SpInit /\ DdIdle /\ OcIdle /\ HxIdle /\ RsIdle /\ TaIdle /\ CsIdle /\ BaIdle /\ WqIdle /\ PhIdle /\ XcIdle /\ VfIdle /\ EvIdle /\ HpIdle

SpecPrice == InitPrice /\ [][SpNext]_vars

\* the continuations of a settled promise run; nothing makes the feed answer
SpFairness ==
    \A c \in PriceCallers :
        /\ WF_vars(SpHandleFetch(c) /\ UNCHANGED NotSp)
        /\ WF_vars(SpHandleJson(c) /\ UNCHANGED NotSp)

SpecPriceFair == InitPrice /\ [][SpNext]_vars /\ SpFairness

RsNext ==
    \/ \E c \in ResolverCalls : RsCall(c) /\ UNCHANGED NotRs
    \/ \E c \in ResolverCalls : RsJupSettles(c) /\ UNCHANGED NotRs
    \/ \E c \in ResolverCalls : RsDasSettles(c) /\ UNCHANGED NotRs
    \/ RsTick /\ UNCHANGED NotRs

InitResolver == RsInit /\ DdIdle /\ OcIdle /\ HxIdle /\ SpIdle /\ TaIdle /\ CsIdle /\ BaIdle /\ WqIdle /\ PhIdle /\ XcIdle /\ VfIdle /\ EvIdle /\ HpIdle

SpecResolver == InitResolver /\ [][RsNext]_vars

TaNext == TaGet /\ UNCHANGED NotTa

InitTimeAnalysis == TaInit /\ DdIdle /\ OcIdle /\ HxIdle /\ SpIdle /\ RsIdle /\ CsIdle /\ BaIdle /\ WqIdle /\ PhIdle /\ XcIdle /\ VfIdle /\ EvIdle /\ HpIdle

SpecTimeAnalysis == InitTimeAnalysis /\ [][TaNext]_vars

CsNext ==
    \/ ClassifySwapCall /\ UNCHANGED NotCs
    \/ ParseSwapCall /\ UNCHANGED NotCs

InitSwapClassifiers == CsInit /\ DdIdle /\ OcIdle /\ HxIdle /\ SpIdle /\ RsIdle /\ TaIdle /\ BaIdle /\ WqIdle /\ PhIdle /\ XcIdle /\ VfIdle /\ EvIdle /\ HpIdle

SpecSwapClassifiers == InitSwapClassifiers /\ [][CsNext]_vars

NotWq == <<ddVars, ocVars, hxVars, spVars, rsVars, taVars, csVars, baVars, phVars, xcVars, vfVars, evVars, hpVars>>

NotPh == <<ddVars, ocVars, hxVars, spVars, rsVars, taVars, csVars, baVars, wqVars, xcVars, vfVars, evVars, hpVars>>

NotXc == <<ddVars, ocVars, hxVars, spVars, rsVars, taVars, csVars, baVars, wqVars, phVars, vfVars, evVars, hpVars>>

NotVf == <<ddVars, ocVars, hxVars, spVars, rsVars, taVars, csVars, baVars, wqVars, phVars,
          xcVars, evVars, hpVars>>

NotEv == <<ddVars, ocVars, hxVars, spVars, rsVars, taVars, csVars, baVars, wqVars, phVars,
          xcVars, vfVars, hpVars>>

NotHp == <<ddVars, ocVars, hxVars, spVars, rsVars, taVars, csVars, baVars, wqVars, phVars,
          xcVars, vfVars, evVars>>

BaNext == BuildActionCall /\ UNCHANGED NotBa

InitBuildAction ==
    BaInit /\ DdIdle /\ OcIdle /\ HxIdle /\ SpIdle /\ RsIdle /\ TaIdle /\ CsIdle /\ WqIdle /\ PhIdle /\ XcIdle /\ VfIdle /\ EvIdle /\ HpIdle

SpecBuildAction == InitBuildAction /\ [][BaNext]_vars

WqNext ==
    \/ WalletPnlRoute /\ UNCHANGED NotWq
    \/ TradingMetricsRoute /\ UNCHANGED NotWq
    \/ TimeAnalysisRoute /\ UNCHANGED NotWq
    \/ OrderAnalysisRoute /\ UNCHANGED NotWq
    \/ TransactionsRoute /\ UNCHANGED NotWq
    \/ VolumeFeesRoute /\ UNCHANGED NotWq
    \/ PortfolioHistoryRoute /\ UNCHANGED NotWq

InitRoutes ==
    WqInit /\ DdIdle /\ OcIdle /\ HxIdle /\ SpIdle /\ RsIdle /\ TaIdle /\ CsIdle /\ BaIdle /\ PhIdle /\ XcIdle /\ VfIdle /\ EvIdle /\ HpIdle

SpecRoutes == InitRoutes /\ [][WqNext]_vars

PhNext ==
    \/ GetPortfolioHistoryCall /\ UNCHANGED NotPh
    \/ PhTick /\ UNCHANGED NotPh

InitHistory ==
    /\ PhInit /\ DdIdle /\ OcIdle /\ HxIdle /\ SpIdle /\ RsIdle /\ TaIdle /\ CsIdle /\ XcIdle /\ VfIdle /\ EvIdle /\ HpIdle
    /\ BaIdle /\ WqIdle

SpecHistory == InitHistory /\ [][PhNext]_vars

XcNext ==
    \/ XcFetchIssued /\ UNCHANGED NotXc
    \/ JupiterListResponds /\ UNCHANGED NotXc
    \/ HeliusDasResponds /\ UNCHANGED NotXc
    \/ SolPriceResponds /\ UNCHANGED NotXc

InitExternalCalls ==
    /\ XcInit /\ DdIdle /\ OcIdle /\ HxIdle /\ SpIdle /\ RsIdle /\ TaIdle /\ CsIdle /\ VfIdle /\ EvIdle /\ HpIdle
    /\ BaIdle /\ WqIdle /\ PhIdle

SpecExternalCalls == InitExternalCalls /\ [][XcNext]_vars

VfNext == VolumeFeesGet /\ UNCHANGED NotVf

InitVolumeFees ==
    /\ VfInit /\ DdIdle /\ OcIdle /\ HxIdle /\ SpIdle /\ RsIdle /\ TaIdle /\ CsIdle /\ EvIdle /\ HpIdle
    /\ BaIdle /\ WqIdle /\ PhIdle /\ XcIdle

SpecVolumeFees == InitVolumeFees /\ [][VfNext]_vars

EvNext == EstimateValueSolCall /\ UNCHANGED NotEv

InitEstimateValue ==
    /\ EvInit /\ DdIdle /\ OcIdle /\ HxIdle /\ SpIdle /\ RsIdle /\ TaIdle /\ CsIdle /\ HpIdle
    /\ BaIdle /\ WqIdle /\ PhIdle /\ XcIdle /\ VfIdle

SpecEstimateValue == InitEstimateValue /\ [][EvNext]_vars

HpNext ==
    \/ \E wallet \in HpWallets : WalletChanges(wallet) /\ UNCHANGED NotHp
    \/ \E r \in hpInFlight : PortfolioSettles(r) /\ UNCHANGED NotHp
    \/ \E r \in hpInFlight : TransactionsSettles(r) /\ UNCHANGED NotHp
    \/ \E r \in hpInFlight : TimeAnalysisSettles(r) /\ UNCHANGED NotHp

InitDashboard ==
    /\ HpInit /\ DdIdle /\ OcIdle /\ HxIdle /\ SpIdle /\ RsIdle /\ TaIdle /\ CsIdle
    /\ BaIdle /\ WqIdle /\ PhIdle /\ XcIdle /\ VfIdle /\ EvIdle

SpecDashboard == InitDashboard /\ [][HpNext]_vars

====
